---- MODULE Spec2Model ----
(***************************************************************************)
(* A model of the shader-background rendering engine (ShaderCanvas): its   *)
(* loop driver (start / stop / loop / render) and its surface manager      *)
(* (constructor sizing / resize / deferred resize in single-render mode).  *)
(*                                                                         *)
(* Representation.                                                         *)
(*  - An optional JavaScript value is a sequence: <<>> is undefined/null,  *)
(*    <<v>> is the value v.                                                *)
(*  - Times are integers in milliseconds.  totalTime holds the engine's    *)
(*    #totalTime (seconds) as a count of thousandths of a second, so the   *)
(*    code's `dt * 0.001` is an exact addition of dt.                      *)
(*  - renderScale is a rational with denominator ScaleDen (hundredths):    *)
(*    the option renderScale and the option pixelRatio are given in        *)
(*    tenths and multiplied as the constructor multiplies them.            *)
(*  - The whole world (engine fields, canvas, browser clock, the browser's *)
(*    animation-frame queue, history variables) is threaded through the    *)
(*    method operators as one record, so that a method is the composition  *)
(*    of its statements in source order.                                   *)
(***************************************************************************)
EXTENDS Integers, Sequences, FiniteSets, TLC

VARIABLES
  \* ShaderCanvas private fields
  animationId, lastTime, totalTime, isPlaying,
  renderScale, singleRender, displayWidth, displayHeight, pendingResize,
  \* objects the engine owns or was given
  plugin, uniforms, canvas, rendererSize,
  \* browser environment
  now, rect, rafQueue, nextRafId, pixels,
  \* history variables (observations of what the last call did)
  lastOp, log, renderedBuf, resizesSinceRender, deliveredMs, tickMs,
  \* ShaderBackgroundElement private fields (elEngine holds the whole engine)
  elEngine, elPlugin, elRenderScale, elSingleRender, elObserving,
  \* the element's attributes, its layout box and the clock
  elAttrs, elRect, elNow,
  \* history variables of the element
  elLastOp, elLog, elThrew, elRetired,
  \* GradientPlugin fields
  gpPointsConfig, gpDefaultMotion, gpParsedColors, gpColorStates,
  gpMotionStates, gpUniforms,
  \* history variables of the plugin: the points given to the constructor,
  \* the last call and the dt it was given
  gpRegistered, gpLastOp, gpLastDt,
  \* whether the last call on the plugin threw, and the fields of points the
  \* caller has assigned since construction: << index, field >> in order
  gpThrew, gpEdits,
  \* an easing curve under test: its name, the progress given, the value
  easeKind, easeT, easeY,
  \* LiquidOrbPlugin fields: this.orbs, this.orbData (the value of uOrbs),
  \* this.speedMultiplier; and the last call made on the plugin
  orbs, orbData, speedMultiplier, orbLastOp

\* the variables of the liquid-orb plugin
orbVars == << orbs, orbData, speedMultiplier, orbLastOp >>

\* the variables of the gradient plugin
gpVars == << gpPointsConfig, gpDefaultMotion, gpParsedColors, gpColorStates,
             gpMotionStates, gpUniforms, gpRegistered, gpLastOp, gpLastDt,
             gpThrew, gpEdits >>

\* the variables of the easing curve under test
easeVars == << easeKind, easeT, easeY >>

\* the variables of the element
elVars == << elEngine, elPlugin, elRenderScale, elSingleRender, elObserving,
             elAttrs, elRect, elNow, elLastOp, elLog, elThrew, elRetired >>

vars == << animationId, lastTime, totalTime, isPlaying,
           renderScale, singleRender, displayWidth, displayHeight, pendingResize,
           plugin, uniforms, canvas, rendererSize,
           now, rect, rafQueue, nextRafId, pixels,
           lastOp, log, renderedBuf, resizesSinceRender, deliveredMs, tickMs,
           elEngine, elPlugin, elRenderScale, elSingleRender, elObserving,
           elAttrs, elRect, elNow, elLastOp, elLog, elThrew, elRetired,
           gpPointsConfig, gpDefaultMotion, gpParsedColors, gpColorStates,
           gpMotionStates, gpUniforms, gpRegistered, gpLastOp, gpLastDt,
           gpThrew, gpEdits, easeKind, easeT, easeY,
           orbs, orbData, speedMultiplier, orbLastOp >>

\* the variables of a directly used ShaderCanvas
canvasVars ==
  << animationId, lastTime, totalTime, isPlaying,
     renderScale, singleRender, displayWidth, displayHeight, pendingResize,
     plugin, uniforms, canvas, rendererSize,
     now, rect, rafQueue, nextRafId, pixels,
     lastOp, log, renderedBuf, resizesSinceRender, deliveredMs, tickMs >>

-----------------------------------------------------------------------------
(* Bounds of the model *)

MaxNow == 2
MaxRafId == 2
MaxResizeCount == 2
MaxHookRafId == 3
MaxRegistered == 20
ElMaxNow == 1
MaxEdits == 1
EaseGrid == 12
MaxOrbAbs == 2

(* Program constants *)

DefaultSize == 300
ScaleDen == 100
DefaultRenderScale == 10
DefaultPixelRatio == 10
MinPixelRatio == 1
MaxPixelRatio == 40
MinDim == 1
ElDefaultSize == 300
ElDefaultRenderScale == 10
ElMinRenderScale == 1
ElMaxRenderScale == 20

-----------------------------------------------------------------------------
(* Small input sets *)

None == <<>>

Some(v) == <<v>>

\* options.width / options.height given to the constructor
OptionSizes == { <<None, None>>, <<Some(0), Some(3)>>,
                 <<Some(-1), Some(2)>>, <<Some(4), Some(2)>> }

RectSizes == { [width |-> 0, height |-> 0], [width |-> 3, height |-> 2] }

\* arguments of resize(width?, height?)
ResizeArgs == { <<None, None>>, <<Some(0), Some(3)>>,
                <<Some(3), Some(-1)>>, <<Some(5), Some(2)>> }

\* options.renderScale and options.pixelRatio, in tenths
ScaleOptions == { <<None, None>>, <<Some(5), Some(0)>>, <<Some(5), Some(50)>> }

\* A kernel: which optional hooks it implements and whether its own uniform
\* map declares entries named uTime / uResolution.
Plugins ==
  { [onRender |-> TRUE,  onResize |-> TRUE,  uTime |-> None, uResolution |-> None],
    [onRender |-> FALSE, onResize |-> FALSE, uTime |-> Some(7), uResolution |-> Some(<<9, 9>>)] }

-----------------------------------------------------------------------------
(* Arithmetic helpers *)

Max(a, b) == IF a >= b THEN a ELSE b

Min(a, b) == IF a <= b THEN a ELSE b

\* JavaScript `x ?? d`
Nullish(opt, d) == IF opt = None THEN d ELSE opt[1]

\* JavaScript truthiness of an optional number (undefined and 0 are falsy)
Falsy(opt) == IF opt = None THEN TRUE ELSE opt[1] = 0

\* JavaScript `x || d`
OrDefault(opt, d) == IF Falsy(opt) THEN d ELSE opt[1]

\* (mutant) the floor alone, without the lower clamp
BufferDimUnclamped(size, scale) == (size * scale) \div ScaleDen

\* Math.max(1, Math.floor(size * renderScale))
BufferDim(size, scale) == Max(MinDim, (size * scale) \div ScaleDen)

\* Math.max(0.1, Math.min(4.0, pixelRatio)), in tenths
ClampPixelRatio(p) == Max(MinPixelRatio, Min(MaxPixelRatio, p))

Event(name, args) == [ev |-> name, args |-> args]

Emit(s, e) == [s EXCEPT !.log = Append(@, e)]

-----------------------------------------------------------------------------
(* The graphics runtime and the canvas element *)

\* canvas.width = w; canvas.height = h  (assigning either clears the buffer)
SetCanvasBuffer(s, w, h) ==
  [s EXCEPT !.canvas.width = w, !.canvas.height = h, !.pixels = "blank"]

\* renderer.setSize(w, h) with dpr 1: sizes the canvas buffer and may
\* overwrite the canvas CSS size
setSize(s, w, h) ==
  Emit([s EXCEPT !.rendererSize = <<w, h>>,
                 !.canvas.width = w, !.canvas.height = h,
                 !.canvas.styleWidth = w, !.canvas.styleHeight = h,
                 !.pixels = "blank"],
       Event("setSize", <<w, h>>))

\* canvas.style.width = `${w}px`; canvas.style.height = `${h}px`
SetCanvasStyle(s, w, h) ==
  [s EXCEPT !.canvas.styleWidth = w, !.canvas.styleHeight = h]

\* renderer.render({ scene: mesh }): one draw call with the program's
\* current uniform values into the current drawing buffer
Draw(s) ==
  Emit([s EXCEPT !.pixels = "frame",
                 !.renderedBuf = <<s.canvas.width, s.canvas.height>>,
                 !.resizesSinceRender = 0],
       Event("draw", << s.uniforms.uTime, s.uniforms.uResolution,
                        s.totalTime, <<s.displayWidth, s.displayHeight>>,
                        <<s.canvas.width, s.canvas.height>>,
                        s.resizesSinceRender >>))

\* requestAnimationFrame(this.loop): the browser queues the callback and
\* returns a fresh handle
requestAnimationFrame(s) ==
  Emit([s EXCEPT !.rafQueue = @ \cup {s.nextRafId},
                 !.nextRafId = @ + 1,
                 !.animationId = Some(s.nextRafId)],
       Event("raf", <<s.nextRafId>>))

\* cancelAnimationFrame(id)
cancelAnimationFrame(s, id) ==
  Emit([s EXCEPT !.rafQueue = @ \ {id}], Event("cancel", <<id>>))

-----------------------------------------------------------------------------
(* Kernel hooks *)

CallOnRender(s, dt) ==
  IF s.plugin.onRender
    THEN Emit([s EXCEPT !.deliveredMs = @ + dt], Event("onRender", <<dt, s.totalTime>>))
    ELSE s

\* (mutant) tells the kernel the size of the drawing buffer
CallOnResizeWithBuffer(s, w, h) ==
  IF s.plugin.onResize
    THEN Emit(s, Event("onResize", << BufferDim(w, s.renderScale),
                                      BufferDim(h, s.renderScale) >>))
    ELSE s

CallOnResize(s, w, h) ==
  IF s.plugin.onResize THEN Emit(s, Event("onResize", <<w, h>>)) ELSE s

-----------------------------------------------------------------------------
(* ShaderCanvas methods *)

\* (mutant) applies the pending size but forgets to clear it
ApplyPendingResizeKeepsPending(s) ==
  IF s.pendingResize # None
    THEN LET renderWidth == s.pendingResize[1][1]
             renderHeight == s.pendingResize[1][2]
             s2 == SetCanvasBuffer(s, renderWidth, renderHeight)
             s3 == setSize(s2, renderWidth, renderHeight)
         IN  SetCanvasStyle(s3, s.displayWidth, s.displayHeight)
    ELSE s

\* (mutant) reallocates on every render, pending or not
ApplyPendingResizeAlways(s) ==
  LET renderWidth == IF s.pendingResize # None THEN s.pendingResize[1][1]
                     ELSE s.canvas.width
      renderHeight == IF s.pendingResize # None THEN s.pendingResize[1][2]
                      ELSE s.canvas.height
      s1 == [s EXCEPT !.pendingResize = None]
      s2 == SetCanvasBuffer(s1, renderWidth, renderHeight)
      s3 == setSize(s2, renderWidth, renderHeight)
  IN  SetCanvasStyle(s3, s.displayWidth, s.displayHeight)

\* the `if (this.#pendingResize) { ... }` block of render()
ApplyPendingResize(s) ==
  IF s.pendingResize # None
    THEN LET renderWidth == s.pendingResize[1][1]
             renderHeight == s.pendingResize[1][2]
             s1 == [s EXCEPT !.pendingResize = None]
             s2 == SetCanvasBuffer(s1, renderWidth, renderHeight)
             s3 == setSize(s2, renderWidth, renderHeight)
         IN  SetCanvasStyle(s3, s.displayWidth, s.displayHeight)
    ELSE s

\* (mutant) assigns the frame's dt instead of accumulating it
AdvanceTimeAssigns(s) ==
  LET dt == s.now - s.lastTime
  IN  Emit([s EXCEPT !.lastTime = s.now,
                     !.totalTime = dt,
                     !.tickMs = @ + dt,
                     !.uniforms.uTime = dt],
           Event("clock", <<dt, dt>>))

\* now = performance.now(); dt = now - lastTime; lastTime = now;
\* totalTime += dt * 0.001; uniforms.uTime.value = totalTime
AdvanceTime(s) ==
  LET dt == s.now - s.lastTime
  IN  Emit([s EXCEPT !.lastTime = s.now,
                     !.totalTime = @ + dt,
                     !.tickMs = @ + dt,
                     !.uniforms.uTime = s.totalTime + dt],
           Event("clock", <<dt, s.totalTime + dt>>))

\* (mutant) submits the draw before the kernel's per-frame hook has run
renderDrawsFirst(s) ==
  LET s1 == ApplyPendingResize(s)
      dt == s1.now - s1.lastTime
      s2 == AdvanceTime(s1)
      s3 == Draw(s2)
  IN  CallOnRender(s3, dt)

\* (mutant) computes the delta with its operands swapped
renderNegatesDt(s) ==
  LET s1 == ApplyPendingResize(s)
      dt == s1.lastTime - s1.now
      s2 == AdvanceTime(s1)
      s3 == CallOnRender(s2, dt)
  IN  Draw(s3)

\* (mutant) hands the kernel at most one millisecond per frame
renderCapsDt(s) ==
  LET s1 == ApplyPendingResize(s)
      dt == Min(1, s1.now - s1.lastTime)
      s2 == AdvanceTime(s1)
      s3 == CallOnRender(s2, dt)
  IN  Draw(s3)

render(s) ==
  LET s1 == ApplyPendingResize(s)
      dt == s1.now - s1.lastTime
      s2 == AdvanceTime(s1)
      s3 == CallOnRender(s2, dt)
  IN  Draw(s3)

\* (mutant) single-render start that leaves the engine marked as playing
startStaysPlaying(s) ==
  IF s.isPlaying THEN s
  ELSE LET s1 == [s EXCEPT !.isPlaying = TRUE, !.lastTime = s.now]
       IN  IF s1.singleRender
             THEN render(s1)
             ELSE requestAnimationFrame(render(s1))

\* (mutant) start that leaves lastTime where the last tick put it
startKeepsLastTime(s) ==
  IF s.isPlaying THEN s
  ELSE LET s1 == [s EXCEPT !.isPlaying = TRUE]
       IN  IF s1.singleRender
             THEN [render(s1) EXCEPT !.isPlaying = FALSE]
             ELSE requestAnimationFrame(render(s1))

start(s) ==
  IF s.isPlaying THEN s
  ELSE LET s1 == [s EXCEPT !.isPlaying = TRUE, !.lastTime = s.now]
       IN  IF s1.singleRender
             THEN [render(s1) EXCEPT !.isPlaying = FALSE]
             ELSE requestAnimationFrame(render(s1))

\* (mutant) clears the flag and the handle but never cancels the frame
stopWithoutCancel(s) ==
  [s EXCEPT !.isPlaying = FALSE, !.animationId = None]

\* (mutant) stopping also discards a deferred resize
stopDropsPendingResize(s) ==
  LET s1 == [s EXCEPT !.isPlaying = FALSE, !.pendingResize = None]
  IN  IF s1.animationId # None
        THEN [cancelAnimationFrame(s1, s1.animationId[1]) EXCEPT !.animationId = None]
        ELSE s1

stop(s) ==
  LET s1 == [s EXCEPT !.isPlaying = FALSE]
  IN  IF s1.animationId # None
        THEN [cancelAnimationFrame(s1, s1.animationId[1]) EXCEPT !.animationId = None]
        ELSE s1

loop(s) ==
  IF ~s.isPlaying THEN s
  ELSE requestAnimationFrame(render(s))

\* (mutant) defers the reallocation in either mode
ResizeBufferDefers(s, renderWidth, renderHeight, width, height) ==
  [s EXCEPT !.pendingResize = Some(<<renderWidth, renderHeight>>)]

\* (mutant) reallocates the buffer at once in either mode
ResizeBufferEager(s, renderWidth, renderHeight, width, height) ==
  SetCanvasStyle(
    setSize(SetCanvasBuffer(s, renderWidth, renderHeight), renderWidth, renderHeight),
    width, height)

\* the `if (this.#singleRender) { ... } else { ... }` block of resize()
ResizeBuffer(s, renderWidth, renderHeight, width, height) ==
  IF s.singleRender
    THEN [s EXCEPT !.pendingResize = Some(<<renderWidth, renderHeight>>)]
    ELSE SetCanvasStyle(
           setSize(SetCanvasBuffer(s, renderWidth, renderHeight),
                   renderWidth, renderHeight),
           width, height)

resize(s, w, h) ==
  LET fromRect == w = None \/ h = None
      width == IF fromRect THEN Max(MinDim, s.rect.width) ELSE w[1]
      height == IF fromRect THEN Max(MinDim, s.rect.height) ELSE h[1]
      renderWidth == BufferDim(width, s.renderScale)
      renderHeight == BufferDim(height, s.renderScale)
      s1 == [s EXCEPT !.displayWidth = width, !.displayHeight = height]
      s2 == SetCanvasStyle(s1, width, height)
      s3 == ResizeBuffer(s2, renderWidth, renderHeight, width, height)
      s4 == [s3 EXCEPT !.uniforms.uResolution = <<width, height>>]
      s5 == CallOnResize(s4, width, height)
  IN  [s5 EXCEPT !.resizesSinceRender = Min(MaxResizeCount, @ + 1)]

dispose(s) == stop(s)

\* new ShaderCanvas(canvas, plugin, options), including init()
Construct(pl, opts, r, t) ==
  LET pr == ClampPixelRatio(Nullish(opts.pixelRatio, DefaultPixelRatio))
      scale == Nullish(opts.renderScale, DefaultRenderScale) * pr
      w0 == OrDefault(opts.width, DefaultSize)
      h0 == OrDefault(opts.height, DefaultSize)
      useRect == Falsy(opts.width) \/ Falsy(opts.height)
      width == IF useRect /\ r.width > 0 THEN r.width ELSE w0
      height == IF useRect /\ r.height > 0 THEN r.height ELSE h0
      renderWidth == BufferDim(width, scale)
      renderHeight == BufferDim(height, scale)
      commonUniforms == [uTime |-> 0, uResolution |-> <<width, height>>]
  IN  [ animationId |-> None, lastTime |-> 0, totalTime |-> 0, isPlaying |-> FALSE,
        renderScale |-> scale, singleRender |-> opts.singleRender,
        displayWidth |-> width, displayHeight |-> height, pendingResize |-> None,
        plugin |-> pl,
        uniforms |-> [uTime |-> Nullish(pl.uTime, commonUniforms.uTime),
                      uResolution |-> Nullish(pl.uResolution, commonUniforms.uResolution)],
        canvas |-> [width |-> renderWidth, height |-> renderHeight,
                    styleWidth |-> width, styleHeight |-> height],
        rendererSize |-> <<renderWidth, renderHeight>>,
        now |-> t, rect |-> r, rafQueue |-> {}, nextRafId |-> 1, pixels |-> "blank",
        lastOp |-> "construct", log |-> <<>>,
        renderedBuf |-> <<renderWidth, renderHeight>>,
        resizesSinceRender |-> 0, deliveredMs |-> 0, tickMs |-> 0 ]

-----------------------------------------------------------------------------
(* Numbers of the GradientPlugin: exact fractions <<numerator, denominator>> *)

Abs(n) == IF n < 0 THEN -n ELSE n

RECURSIVE Gcd(_, _)
Gcd(a, b) == IF b = 0 THEN a ELSE Gcd(b, a % b)

\* n/d divided through by g, with a positive denominator
Reduced(n, d, g) ==
  IF d < 0 THEN << -(n \div g), -(d \div g) >> ELSE << n \div g, d \div g >>

\* the fraction n/d in lowest terms with a positive denominator
R(n, d) == Reduced(n, d, Gcd(Abs(n), Abs(d)))

Num(n) == << n, 1 >>
RAdd(a, b) == R(a[1] * b[2] + b[1] * a[2], a[2] * b[2])
RSub(a, b) == R(a[1] * b[2] - b[1] * a[2], a[2] * b[2])
RMul(a, b) == R(a[1] * b[1], a[2] * b[2])
RDiv(a, b) == R(a[1] * b[2], a[2] * b[1])
RLt(a, b) == a[1] * b[2] < b[1] * a[2]
RLe(a, b) == a[1] * b[2] <= b[1] * a[2]
RMax(a, b) == IF RLt(a, b) THEN b ELSE a
RMin(a, b) == IF RLt(b, a) THEN b ELSE a

-----------------------------------------------------------------------------
(* GradientPlugin: animated gradient points *)

MAX_POINTS == 16
DefaultDuration == Num(3)
MinDuration == R(1, 1000)
DefaultSpeed == Num(1)
DefaultBounds == [minX |-> Num(-1), maxX |-> Num(1), minY |-> Num(-1), maxY |-> Num(1)]
ByteMax == 255

\* new Color(hex) of ogl: each channel byte divided by 255
ParseColor(hex) == << R(hex[1], ByteMax), R(hex[2], ByteMax), R(hex[3], ByteMax) >>

\* #clamp(n, min, max)
clamp(n, lo, hi) == RMax(lo, RMin(hi, n))

\* #lerp(a, b, t)
lerp(a, b, t) == RAdd(a, RMul(RSub(b, a), t))

\* 1 - Math.pow(-2 * x + 2, k) / 2 for k = 2 and k = 3
Sq(v) == RMul(v, v)
Cube(v) == RMul(v, RMul(v, v))
\* (mutant) 1 - Math.pow(-2 * x + 2, 2), without the halving
EaseOutQuadWhole(v) == RSub(Num(1), Sq(v))

EaseOutQuad(v) == RSub(Num(1), RDiv(Sq(v), Num(2)))
EaseOutCubic(v) == RSub(Num(1), RDiv(Cube(v), Num(2)))

\* the switch of #ease on the clamped x
EaseClamped(x, easing) ==
  CASE easing = "linear" -> x
    [] easing = "easeInOutQuad" ->
         IF RLt(x, R(1, 2)) THEN RMul(Num(2), Sq(x))
         ELSE EaseOutQuad(RAdd(RMul(Num(-2), x), Num(2)))
    [] easing = "easeInOutCubic" ->
         IF RLt(x, R(1, 2)) THEN RMul(Num(4), Cube(x))
         ELSE EaseOutCubic(RAdd(RMul(Num(-2), x), Num(2)))
    [] OTHER -> RMul(Sq(x), RSub(Num(3), RMul(Num(2), x)))

\* #ease(t, easing)
ease(t, easing) == EaseClamped(clamp(t, Num(0), Num(1)), easing)

\* a GradientMotion object; an absent field is None
Motion(mode, path, duration, easing, bounds, randomRadius) ==
  [ mode |-> mode, path |-> path, duration |-> duration, easing |-> easing,
    bounds |-> bounds, randomRadius |-> randomRadius ]

\* {} as a GradientMotion, and {} as its bounds
NoMotion == Motion(None, None, None, None, None, None)
NoBounds == [minX |-> None, maxX |-> None, minY |-> None, maxY |-> None]

\* one field of { ...a, ...b }
Over(a, b) == IF b # None THEN b ELSE a

\* { ...dm, ...m }
Spread(dm, m) ==
  Motion(Over(dm.mode, m.mode), Over(dm.path, m.path),
         Over(dm.duration, m.duration), Over(dm.easing, m.easing),
         Over(dm.bounds, m.bounds), Over(dm.randomRadius, m.randomRadius))

\* { ...this.defaultMotion, ...(point.motion ?? {}) }
MergeMotion(dm, pm) == Spread(dm, IF pm = None THEN NoMotion ELSE pm[1])

\* { minX: -1, maxX: 1, minY: -1, maxY: 1, ...given }
FillBounds(given) ==
  [ minX |-> Nullish(given.minX, DefaultBounds.minX),
    maxX |-> Nullish(given.maxX, DefaultBounds.maxX),
    minY |-> Nullish(given.minY, DefaultBounds.minY),
    maxY |-> Nullish(given.maxY, DefaultBounds.maxY) ]

\* "ensure sane ordering": swap a minimum that exceeds its maximum
OrderX(b) == IF RLt(b.maxX, b.minX) THEN [b EXCEPT !.minX = b.maxX, !.maxX = b.minX] ELSE b
OrderY(b) == IF RLt(b.maxY, b.minY) THEN [b EXCEPT !.minY = b.maxY, !.maxY = b.minY] ELSE b

\* (mutant) takes the configured duration as it is
ResolvedAnyDuration(m) ==
  [ mode |-> Nullish(m.mode, "none"),
    path |-> Nullish(m.path, <<>>),
    duration |-> Nullish(m.duration, DefaultDuration),
    easing |-> Nullish(m.easing, "smoothstep"),
    bounds |-> OrderY(OrderX(FillBounds(IF m.bounds = None THEN NoBounds
                                        ELSE m.bounds[1]))),
    randomRadius |-> RMax(Num(0), Nullish(m.randomRadius, Num(0))) ]

\* the object #resolveMotion returns for the merged motion m
Resolved(m) ==
  [ mode |-> Nullish(m.mode, "none"),
    path |-> Nullish(m.path, <<>>),
    duration |-> RMax(MinDuration, Nullish(m.duration, DefaultDuration)),
    easing |-> Nullish(m.easing, "smoothstep"),
    bounds |-> OrderY(OrderX(FillBounds(IF m.bounds = None THEN NoBounds
                                        ELSE m.bounds[1]))),
    randomRadius |-> RMax(Num(0), Nullish(m.randomRadius, Num(0))) ]

\* #resolveMotion(point)
resolveMotion(dm, point) == Resolved(MergeMotion(dm, point.motion))

\* Math.random() results used by one #randomTarget call: << first, second >>.
\* The first is a quarter turn count, the second a square, so that the
\* cosine, sine and square root below are exact.
RandomPairs == { << R(0, 1), R(1, 4) >>, << R(1, 4), R(1, 4) >>, << R(1, 2), R(0, 1) >> }

\* Math.cos(u * Math.PI * 2) and Math.sin(u * Math.PI * 2) at quarter turns
Cos2Pi(u) == CASE u = R(0, 1) -> Num(1) [] u = R(1, 4) -> Num(0)
               [] u = R(1, 2) -> Num(-1) [] u = R(3, 4) -> Num(0)
Sin2Pi(u) == CASE u = R(0, 1) -> Num(0) [] u = R(1, 4) -> Num(1)
               [] u = R(1, 2) -> Num(0) [] u = R(3, 4) -> Num(-1)

\* Math.sqrt(u) at the squares drawn
Sqrt(u) == CASE u = R(0, 1) -> R(0, 1) [] u = R(1, 4) -> R(1, 2) [] u = R(1, 1) -> R(1, 1)

\* (mutant) the point in the disk, not clamped
DiskTargetUnclamped(baseX, baseY, bounds, r, u) ==
  [ x |-> RAdd(baseX, RMul(Cos2Pi(u), r)), y |-> RAdd(baseY, RMul(Sin2Pi(u), r)) ]

\* the point at distance r and angle 2 pi u from the base, clamped
DiskTarget(baseX, baseY, bounds, r, u) ==
  [ x |-> clamp(RAdd(baseX, RMul(Cos2Pi(u), r)), bounds.minX, bounds.maxX),
    y |-> clamp(RAdd(baseY, RMul(Sin2Pi(u), r)), bounds.minY, bounds.maxY) ]

\* #randomTarget(baseX, baseY, bounds, radius) with the random numbers u
randomTarget(baseX, baseY, bounds, radius, u) ==
  IF RLt(Num(0), radius)
  THEN DiskTarget(baseX, baseY, bounds, RMul(Sqrt(u[2]), radius), u[1])
  ELSE [ x |-> lerp(bounds.minX, bounds.maxX, u[1]),
         y |-> lerp(bounds.minY, bounds.maxY, u[2]) ]

\* (mutant) takes a waypoint as it is written
WpAsWritten(wp, bounds) == [ x |-> wp.x, y |-> wp.y ]

\* a waypoint clamped to the bounds
ClampedWp(wp, bounds) ==
  [ x |-> clamp(wp.x, bounds.minX, bounds.maxX),
    y |-> clamp(wp.y, bounds.minY, bounds.maxY) ]

\* state.targetX = tgt.x; state.targetY = tgt.y
Aim(state, tgt) == [state EXCEPT !.targetX = tgt.x, !.targetY = tgt.y]

\* state.t = t
AtT(state, t) == [state EXCEPT !.t = t]

\* the state object #createMotionState starts from
RestingState(point, r) ==
  [ mode |-> r.mode, easing |-> r.easing, duration |-> r.duration,
    bounds |-> r.bounds, randomRadius |-> r.randomRadius,
    startX |-> point.x, startY |-> point.y,
    targetX |-> point.x, targetY |-> point.y,
    t |-> Num(1), pathIndex |-> 0, x |-> point.x, y |-> point.y ]

\* the end of #createMotionState: the first target of a moving point
FirstTarget(point, r, state, u) ==
  IF r.mode = "path" /\ Len(r.path) > 0
  THEN AtT(Aim(state, ClampedWp(r.path[1], r.bounds)), Num(0))
  ELSE IF r.mode = "random"
       THEN AtT(Aim(state, randomTarget(point.x, point.y, r.bounds, r.randomRadius, u)),
                Num(0))
       ELSE state

\* #createMotionState for the resolved motion r
MotionStateFor(point, r, u) == FirstTarget(point, r, RestingState(point, r), u)

\* #createMotionState(point) with the random numbers u
createMotionState(dm, point, u) == MotionStateFor(point, resolveMotion(dm, point), u)

\* the state copied from the changed motion, at its current position
Reseeded(state, r) ==
  [state EXCEPT !.mode = r.mode, !.easing = r.easing,
                !.duration = r.duration, !.bounds = r.bounds,
                !.randomRadius = r.randomRadius,
                !.startX = state.x, !.startY = state.y,
                !.t = Num(0), !.pathIndex = 0]

\* the target of a re-seeded state
ReseedTarget(point, s1, r, u) ==
  IF r.mode = "path" /\ Len(r.path) > 0
  THEN Aim(s1, ClampedWp(r.path[1], r.bounds))
  ELSE IF r.mode = "random"
       THEN Aim(s1, randomTarget(point.x, point.y, r.bounds, r.randomRadius, u))
       ELSE AtT(Aim(s1, point), Num(1))

\* (mutant) takes every tick for a change of the motion
StaleAlways(state, r) == TRUE

\* modeChanged || easingChanged || durationChanged || boundsChanged ||
\* radiusChanged
Stale(state, r) ==
  \/ state.mode # r.mode
  \/ state.easing # r.easing
  \/ state.duration # r.duration
  \/ state.bounds.minX # r.bounds.minX \/ state.bounds.maxX # r.bounds.maxX
  \/ state.bounds.minY # r.bounds.minY \/ state.bounds.maxY # r.bounds.maxY
  \/ state.randomRadius # r.randomRadius

\* the first part of #stepMotion: if the resolved motion differs from the
\* one the state was made for, re-seed the state from the current position
Reseed(point, state, r, u) ==
  IF Stale(state, r)
  THEN ReseedTarget(point, Reseeded(state, r), r, u)
  ELSE state

\* state.x = lerp(startX, targetX, e); state.y = lerp(startY, targetY, e)
EasedBy(state, e) ==
  [state EXCEPT !.x = lerp(state.startX, state.targetX, e),
                !.y = lerp(state.startY, state.targetY, e)]

\* the end of #stepMotion: ease the position between start and target
Eased(state, r) == EasedBy(state, ease(state.t, r.easing))

\* (mutant) snaps to the target and keeps the progress
LandedKeepsProgress(state) ==
  [state EXCEPT !.x = state.targetX, !.y = state.targetY,
                !.startX = state.targetX, !.startY = state.targetY]

\* "snap to target": the state on its target with t = 0
Landed(state) ==
  [state EXCEPT !.x = state.targetX, !.y = state.targetY,
                !.startX = state.targetX, !.startY = state.targetY,
                !.t = Num(0)]

\* the landed state heading for waypoint idx of the path
Heading(s1, idx, r) ==
  Eased(Aim([s1 EXCEPT !.pathIndex = idx], ClampedWp(r.path[idx + 1], r.bounds)), r)

\* "pick next" for a landed state s1
PickNext(point, s1, r, u) ==
  IF r.mode = "path"
  THEN IF Len(r.path) = 0
       THEN AtT(Aim(s1, s1), Num(1))
       ELSE Heading(s1, (s1.pathIndex + 1) % Len(r.path), r)
  ELSE Eased(Aim(s1, randomTarget(point.x, point.y, r.bounds, r.randomRadius, u)), r)

\* (mutant) advances the waypoint index by every segment the dt spans
SnapSkipsSegments(point, state, r, u) ==
  IF r.mode = "path" /\ Len(r.path) > 0
  THEN Heading(Landed(state),
               (state.pathIndex + (state.t[1] \div state.t[2])) % Len(r.path), r)
  ELSE PickNext(point, Landed(state), r, u)

\* the `if (state.t >= 1)` block of #stepMotion and what follows it: snap to
\* the target and pick the next one
Snap(point, state, r, u) == PickNext(point, Landed(state), r, u)

\* the `if (r.mode === 'none')` block: the state parked at (x, y)
Parked(state, x, y) ==
  [state EXCEPT !.x = x, !.y = y, !.startX = x, !.startY = y,
                !.targetX = x, !.targetY = y, !.t = Num(1)]

\* "Advance time" and what follows, for the state s2 with the new t
Advance(point, s2, r, u) ==
  IF RLe(Num(1), s2.t) THEN Snap(point, s2, r, u) ELSE Eased(s2, r)

\* (mutant) parks a static point at its base without clamping it
StepSeededStaticAtBase(point, s1, r, dt, u) ==
  IF r.mode = "none"
  THEN Parked(s1, point.x, point.y)
  ELSE Advance(point, AtT(s1, RAdd(s1.t, RDiv(Num(dt), RMul(r.duration, Num(1000))))),
               r, u)

\* #stepMotion after the re-seed, for the state s1
StepSeeded(point, s1, r, dt, u) ==
  IF r.mode = "none"
  THEN Parked(s1, clamp(point.x, r.bounds.minX, r.bounds.maxX),
                  clamp(point.y, r.bounds.minY, r.bounds.maxY))
  ELSE Advance(point, AtT(s1, RAdd(s1.t, RDiv(Num(dt), RMul(r.duration, Num(1000))))),
               r, u)

\* #stepMotion for the resolved motion r
StepResolved(point, state, r, dt, u) ==
  StepSeeded(point, Reseed(point, state, r, u.seed), r, dt, u.snap)

\* #stepMotion(point, state, dt); u.seed and u.snap are the random numbers of
\* the two #randomTarget calls it can make
stepMotion(dm, point, state, dt, u) ==
  StepResolved(point, state, resolveMotion(dm, point), dt, u)

\* p.speed || 1.0
SpeedOf(p) == IF p.speed = None \/ p.speed = Some(Num(0)) THEN DefaultSpeed ELSE p.speed[1]

\* c1 + (c2 - c1) * t on each channel
Mix(c1, c2, t) == [k \in 1..3 |-> RAdd(c1[k], RMul(RSub(c2[k], c1[k]), t))]

\* the colour state after t was advanced to t1
ColorStateAt(point, state, t1) ==
  IF RLe(Num(1), t1)
  THEN [ t |-> Num(0), currentIdx |-> state.nextIdx,
         nextIdx |-> (state.nextIdx + 1) % Len(point.colors) ]
  ELSE [state EXCEPT !.t = t1]

\* "Perform Lerp": the colour state s1 and the colour it shows.  c1 or c2 is
\* undefined when its index is not one of the colours parsed at construction;
\* reading c1[0] or c2[0] then throws a TypeError before anything is written.
Shown(parsed, s1, color) ==
  IF s1.currentIdx < Len(parsed) /\ s1.nextIdx < Len(parsed)
  THEN [ state |-> s1, threw |-> FALSE,
         color |-> Mix(parsed[s1.currentIdx + 1], parsed[s1.nextIdx + 1], s1.t) ]
  ELSE [ state |-> s1, threw |-> TRUE, color |-> color ]

\* (mutant) carries the progress beyond 1 over instead of resetting it
stepColorKeepsRemainder(point, parsed, state, color, dt) ==
  IF Len(point.colors) <= 1 THEN [state |-> state, color |-> color, threw |-> FALSE]
  ELSE Shown(parsed,
             [ColorStateAt(point, state,
                           RAdd(state.t, RMul(R(dt, 1000), SpeedOf(point))))
                EXCEPT !.t = IF RLe(Num(1), RAdd(state.t, RMul(R(dt, 1000), SpeedOf(point))))
                             THEN RSub(RAdd(state.t, RMul(R(dt, 1000), SpeedOf(point))), Num(1))
                             ELSE @],
             color)

\* the colour part of onRender for one point: the colour state and the
\* colour written to uColors, or the old ones for a point with <= 1 colours
stepColor(point, parsed, state, color, dt) ==
  IF Len(point.colors) <= 1 THEN [state |-> state, color |-> color, threw |-> FALSE]
  ELSE Shown(parsed,
             ColorStateAt(point, state, RAdd(state.t, RMul(R(dt, 1000), SpeedOf(point)))),
             color)

\* (mutant) writes into new arrays that hold the tracked points only
WritePointFresh(g, i, m, c) ==
  [g EXCEPT !.motionStates[i] = m,
            !.uniforms.arrays = << "fresh", "fresh" >>,
            !.uniforms.uPoints =
               [k \in 1..Len(g.pointsConfig) |-> IF k = i THEN << m.x, m.y >> ELSE @[k]],
            !.colorStates[i] = c.state,
            !.uniforms.uColors =
               [k \in 1..Len(g.pointsConfig) |-> IF k = i THEN c.color ELSE @[k]],
            !.threw = c.threw]

\* the writes of one forEach iteration: motion state m, colour result c
WritePoint(g, i, m, c) ==
  [g EXCEPT !.motionStates[i] = m,
            !.uniforms.uPoints[i] = << m.x, m.y >>,
            !.colorStates[i] = c.state,
            !.uniforms.uColors[i] = c.color,
            !.threw = c.threw]

\* one iteration of the forEach of onRender, for the point at index i
onRenderPoint(g, i, dt, u) ==
  WritePoint(g, i,
             stepMotion(g.defaultMotion, g.pointsConfig[i], g.motionStates[i], dt, u),
             stepColor(g.pointsConfig[i], g.parsedColors[i], g.colorStates[i],
                       g.uniforms.uColors[i], dt))

RECURSIVE onRenderFrom(_, _, _, _)
onRenderFrom(g, i, dt, rnd) ==
  IF i > Len(g.pointsConfig) \/ g.threw THEN g
  ELSE IF i > Len(g.motionStates)
  \* this.motionStates[i] is undefined: #stepMotion throws a TypeError when
  \* it reads state.mode
  THEN [g EXCEPT !.threw = TRUE]
  ELSE onRenderFrom(onRenderPoint(g, i, dt, rnd[i]), i + 1, dt, rnd)

\* onRender(dt); rnd[i] are the random numbers for point i
onRender(g, dt, rnd) == onRenderFrom(g, 1, dt, rnd)

\* this.#parsedColors
ParsedColors(points) ==
  [i \in 1..Len(points) |->
     [k \in 1..Len(points[i].colors) |-> ParseColor(points[i].colors[k])]]

\* (mutant) starts a point without colours at white
UniformsWhiteFallback(points, parsed) ==
  [ uPointCount |-> Len(points),
    arrays |-> << "pointArray", "colorArray" >>,
    uPoints |-> [i \in 1..MAX_POINTS |->
                   IF i <= Len(points) THEN << points[i].x, points[i].y >>
                   ELSE << Num(0), Num(0) >>],
    uColors |-> [i \in 1..MAX_POINTS |->
                   IF i > Len(points) THEN << Num(0), Num(0), Num(0) >>
                   ELSE IF Len(parsed[i]) > 0 THEN parsed[i][1]
                   ELSE << Num(1), Num(1), Num(1) >>] ]

\* this.uniforms: the count and the two arrays of MAX_POINTS entries;
\* `arrays` names the two array objects the constructor allocated, which are
\* the values of uPoints and uColors
Uniforms(points, parsed) ==
  [ uPointCount |-> Len(points),
    arrays |-> << "pointArray", "colorArray" >>,
    uPoints |-> [i \in 1..MAX_POINTS |->
                   IF i <= Len(points) THEN << points[i].x, points[i].y >>
                   ELSE << Num(0), Num(0) >>],
    uColors |-> [i \in 1..MAX_POINTS |->
                   IF i <= Len(points) /\ Len(parsed[i]) > 0 THEN parsed[i][1]
                   ELSE << Num(0), Num(0), Num(0) >>] ]

\* the constructor after the count was validated
Build(points, options, rnd) ==
  [ pointsConfig |-> points,
    defaultMotion |-> options.defaultMotion,
    parsedColors |-> ParsedColors(points),
    colorStates |-> [i \in 1..Len(points) |->
                       [currentIdx |-> 0, t |-> Num(0),
                        nextIdx |-> IF Len(points[i].colors) < 2 THEN 0 ELSE 1]],
    motionStates |-> [i \in 1..Len(points) |->
                        createMotionState(options.defaultMotion, points[i], rnd[i].seed)],
    uniforms |-> Uniforms(points, ParsedColors(points)),
    threw |-> FALSE ]

\* (mutant) registers every point given, however many
GradientPluginNoTruncate(points, options, rnd) == Build(points, options, rnd)

\* (mutant) leaves every initial colour at the default black
GradientPluginBlackStart(points, options, rnd) ==
  [Build(SubSeq(points, 1, Min(Len(points), MAX_POINTS)), options, rnd)
     EXCEPT !.uniforms.uColors = [i \in 1..MAX_POINTS |-> << Num(0), Num(0), Num(0) >>]]

\* new GradientPlugin(points, options); rnd[i] are the random numbers for
\* the motion state of point i
GradientPlugin(points, options, rnd) ==
  Build(IF Len(points) > MAX_POINTS THEN SubSeq(points, 1, MAX_POINTS) ELSE points,
        options, rnd)

\* hex colours as byte triples
Red == << 255, 0, 0 >>
Green == << 0, 255, 0 >>
Blue == << 0, 0, 255 >>
Sky == << 56, 189, 248 >>

\* a GradientPoint; speed and motion are optional
Point(x, y, colors, speed, motion) ==
  [ x |-> x, y |-> y, colors |-> colors, speed |-> speed, motion |-> motion ]

\* a waypoint of a path
Wp(x, y) == [ x |-> x, y |-> y ]

\* n static points with one colour each, at distinct places
ManyPoints(n) ==
  [i \in 1..n |-> Point(R(i, 2 * MaxRegistered), R(-i, 2 * MaxRegistered),
                        << Sky >>, None, None)]

\* points that cycle colours: two colours at the default speed, one colour,
\* three colours at speed 2, two colours with speed 0 (which counts as unset)
ColourPoints ==
  << Point(Num(0), Num(0), << Red, Blue >>, None, None),
     Point(R(1, 2), Num(0), << Green >>, Some(Num(2)), None),
     Point(R(-1, 2), R(1, 2), << Red, Green, Blue >>, Some(Num(2)), None),
     Point(Num(0), R(1, 2), << Sky, Red >>, Some(Num(0)), None) >>

\* p.motion: a path without waypoints
EmptyPath == Motion(Some("path"), Some(<<>>), None, None, None, None)

\* points that follow paths: three waypoints in one second per segment, and
\* two waypoints (one outside the bounds) with the default easing
PathPoints ==
  << Point(Num(0), Num(0), << Red >>, None,
           Some(Motion(Some("path"),
                       Some(<< Wp(R(1, 2), Num(0)), Wp(Num(0), R(1, 2)),
                               Wp(R(-1, 2), R(-1, 2)) >>),
                       Some(Num(1)), Some("linear"), None, None))),
     Point(R(1, 4), Num(0), << Red, Blue >>, None,
           Some(Motion(Some("path"),
                       Some(<< Wp(Num(2), Num(0)), Wp(Num(0), Num(0)) >>),
                       Some(Num(2)), None, None, None))) >>

\* a malformed point: no colours, a path without waypoints, and a base
\* outside the bounds
MalformedPoints == << Point(Num(2), R(1, 4), <<>>, None, Some(EmptyPath)) >>

\* points that wander: one inside a radius, one anywhere in the bounds
\* given by the default motion
RandomPoints ==
  << Point(Num(0), Num(0), << Red, Blue >>, None,
           Some(Motion(None, None, None, None, None, Some(R(1, 2))))),
     Point(R(1, 2), R(1, 2), << Green >>, None, Some(Motion(Some("none"), None, None, None, None, None))) >>

RandomDefault == Motion(Some("random"), None, Some(Num(1)), Some("easeInOutQuad"), None, None)

\* the constructor arguments tried
GpCounts == {0, 1, MAX_POINTS - 1, MAX_POINTS, MAX_POINTS + 1, MaxRegistered}

GpArgs ==
  { [points |-> ManyPoints(n), options |-> [defaultMotion |-> NoMotion]] : n \in GpCounts }
    \cup { [points |-> ColourPoints, options |-> [defaultMotion |-> NoMotion]],
           [points |-> PathPoints, options |-> [defaultMotion |-> NoMotion]],
           [points |-> MalformedPoints, options |-> [defaultMotion |-> NoMotion]],
           [points |-> RandomPoints, options |-> [defaultMotion |-> RandomDefault]],
           [points |-> ManyPoints(1), options |-> [defaultMotion |-> RandomDefault]] }

\* the frame times passed to onRender, in ms
Dts == {0, 500, 2500}

\* the random numbers for each point of a list: only the points in random
\* mode call Math.random()
NoDraw == [seed |-> << Num(0), Num(0) >>, snap |-> << Num(0), Num(0) >>]

DrawsFor(points, dm) ==
  LET idx == {i \in 1..Len(points) : resolveMotion(dm, points[i]).mode = "random"}
  IN  { [i \in 1..Len(points) |-> IF i \in idx THEN f[i] ELSE NoDraw] :
          f \in [idx -> [seed : RandomPairs, snap : RandomPairs]] }

\* the random numbers one tick can use for a point in state `state` whose
\* motion resolves to r: the re-seed draws a target if the state was made for
\* another motion, the snap draws one if the progress reaches 1
DrawsWith(state, r, dt) ==
  [ seed : IF r.mode = "random" /\ Stale(state, r)
           THEN RandomPairs ELSE {NoDraw.seed},
    snap : IF r.mode = "random"
              /\ RLe(Num(1), RAdd(IF Stale(state, r) THEN Num(0) ELSE state.t,
                                  RDiv(Num(dt), RMul(r.duration, Num(1000)))))
           THEN RandomPairs ELSE {NoDraw.snap} ]

RECURSIVE TickDrawsFrom(_, _, _)
TickDrawsFrom(g, i, dt) ==
  IF i > Len(g.pointsConfig) THEN { <<>> }
  ELSE IF i > Len(g.motionStates)
  THEN { << NoDraw >> \o rest : rest \in TickDrawsFrom(g, i + 1, dt) }
  ELSE { << d >> \o rest :
           d \in DrawsWith(g.motionStates[i],
                           resolveMotion(g.defaultMotion, g.pointsConfig[i]), dt),
           rest \in TickDrawsFrom(g, i + 1, dt) }

\* the random numbers for each point that one onRender(dt) call can use
TickDraws(g, dt) == TickDrawsFrom(g, 1, dt)

\* what a caller assigns to a tracked point between two ticks.
\* p.x, p.y: a place outside the default bounds, and one inside
BaseChoices == { << Num(2), Num(0) >>, << R(1, 4), R(-1, 4) >> }

\* p.colors: one colour, three colours
ColourChoices == { << Green >>, << Blue, Red, Green >> }

\* p.motion: random targets in a wide disk, zero duration, bounds given with
\* the minimum above the maximum
WideDisk ==
  Motion(Some("random"), None, Some(Num(0)), None,
         Some([minX |-> Some(R(1, 2)), maxX |-> Some(R(-1, 2)),
               minY |-> None, maxY |-> None]),
         Some(Num(3)))

\* p.motion: static in narrow bounds, with a negative duration
NarrowStatic ==
  Motion(Some("none"), None, Some(Num(-1)), None,
         Some([minX |-> None, maxX |-> Some(R(1, 8)),
               minY |-> Some(R(-1, 8)), maxY |-> None]),
         None)

\* a motion object that spells out every value the resolved motion r has
Explicit(r) ==
  Motion(Some(r.mode), Some(r.path), Some(r.duration), Some(r.easing),
         Some([minX |-> Some(r.bounds.minX), maxX |-> Some(r.bounds.maxX),
               minY |-> Some(r.bounds.minY), maxY |-> Some(r.bounds.maxY)]),
         Some(r.randomRadius))

\* the values assigned to p.motion: one of the above, or a new object with
\* the values the point's motion resolves to already
MotionChoices(dm, p) ==
  { Some(WideDisk), Some(NarrowStatic), Some(Explicit(resolveMotion(dm, p))) }

\* the point a caller edits: the first tracked one
EditIdx(points) == {1} \cap (1..Len(points))

\* the names of the easing curves, and the start of the progress values tried
EaseKinds == {"linear", "smoothstep", "easeInOutQuad", "easeInOutCubic"}

\* no easing curve is under test in a specification that does not use one
NoEase ==
  /\ easeKind = "linear"
  /\ easeT = Num(0)
  /\ easeY = Num(0)

\* no liquid-orb plugin exists in a specification that does not use one
NoOrb ==
  /\ orbs = <<>>
  /\ orbData = <<>>
  /\ speedMultiplier = 0
  /\ orbLastOp = "none"

\* no gradient plugin exists in a specification that does not use one
NoGradient ==
  /\ gpPointsConfig = <<>>
  /\ gpDefaultMotion = NoMotion
  /\ gpParsedColors = <<>>
  /\ gpColorStates = <<>>
  /\ gpMotionStates = <<>>
  /\ gpUniforms = [uPointCount |-> 0, uPoints |-> <<>>, uColors |-> <<>>]
  /\ gpRegistered = <<>>
  /\ gpLastOp = "none"
  /\ gpLastDt = 0
  /\ gpThrew = FALSE
  /\ gpEdits = <<>>


-----------------------------------------------------------------------------
(* State machine *)

Cur ==
  [ animationId |-> animationId, lastTime |-> lastTime, totalTime |-> totalTime,
    isPlaying |-> isPlaying, renderScale |-> renderScale, singleRender |-> singleRender,
    displayWidth |-> displayWidth, displayHeight |-> displayHeight,
    pendingResize |-> pendingResize, plugin |-> plugin, uniforms |-> uniforms,
    canvas |-> canvas, rendererSize |-> rendererSize,
    now |-> now, rect |-> rect, rafQueue |-> rafQueue, nextRafId |-> nextRafId,
    pixels |-> pixels, lastOp |-> lastOp, log |-> log,
    renderedBuf |-> renderedBuf, resizesSinceRender |-> resizesSinceRender,
    deliveredMs |-> deliveredMs, tickMs |-> tickMs ]

\* the world at the entry of a step named op; lastOp names the step that
\* led to the current state and log lists the calls that step made
Enter(op) == [Cur EXCEPT !.lastOp = op, !.log = <<>>]

Store(s) ==
  /\ animationId' = s.animationId
  /\ lastTime' = s.lastTime
  /\ totalTime' = s.totalTime
  /\ isPlaying' = s.isPlaying
  /\ renderScale' = s.renderScale
  /\ singleRender' = s.singleRender
  /\ displayWidth' = s.displayWidth
  /\ displayHeight' = s.displayHeight
  /\ pendingResize' = s.pendingResize
  /\ plugin' = s.plugin
  /\ uniforms' = s.uniforms
  /\ canvas' = s.canvas
  /\ rendererSize' = s.rendererSize
  /\ now' = s.now
  /\ rect' = s.rect
  /\ rafQueue' = s.rafQueue
  /\ nextRafId' = s.nextRafId
  /\ pixels' = s.pixels
  /\ lastOp' = s.lastOp
  /\ log' = s.log
  /\ renderedBuf' = s.renderedBuf
  /\ resizesSinceRender' = s.resizesSinceRender
  /\ deliveredMs' = s.deliveredMs
  /\ tickMs' = s.tickMs
  /\ UNCHANGED elVars
  /\ UNCHANGED gpVars
  /\ UNCHANGED easeVars
  /\ UNCHANGED orbVars

\* no element exists in a specification that does not use one
NoElement ==
  /\ elEngine = None
  /\ elPlugin = None
  /\ elRenderScale = ElDefaultRenderScale
  /\ elSingleRender = FALSE
  /\ elObserving = FALSE
  /\ elAttrs = [renderScale |-> None, singleRender |-> None]
  /\ elRect = [width |-> 0, height |-> 0]
  /\ elNow = 0
  /\ elLastOp = "none"
  /\ elLog = <<>>
  /\ elThrew = FALSE
  /\ elRetired = {}

SetInit(s) ==
  /\ animationId = s.animationId
  /\ lastTime = s.lastTime
  /\ totalTime = s.totalTime
  /\ isPlaying = s.isPlaying
  /\ renderScale = s.renderScale
  /\ singleRender = s.singleRender
  /\ displayWidth = s.displayWidth
  /\ displayHeight = s.displayHeight
  /\ pendingResize = s.pendingResize
  /\ plugin = s.plugin
  /\ uniforms = s.uniforms
  /\ canvas = s.canvas
  /\ rendererSize = s.rendererSize
  /\ now = s.now
  /\ rect = s.rect
  /\ rafQueue = s.rafQueue
  /\ nextRafId = s.nextRafId
  /\ pixels = s.pixels
  /\ lastOp = s.lastOp
  /\ log = s.log
  /\ renderedBuf = s.renderedBuf
  /\ resizesSinceRender = s.resizesSinceRender
  /\ deliveredMs = s.deliveredMs
  /\ tickMs = s.tickMs

\* one unused engine in a specification that does not drive one directly
IdleCanvas ==
  SetInit(Construct(CHOOSE pl \in Plugins : pl.onRender,
                    [width |-> None, height |-> None, renderScale |-> None,
                     pixelRatio |-> None, singleRender |-> FALSE],
                    [width |-> 0, height |-> 0], 0))

Init ==
  /\ NoElement
  /\ NoOrb
  /\ NoGradient
  /\ NoEase
  /\ \E pl \in Plugins, sz \in OptionSizes, r \in RectSizes,
        sc \in ScaleOptions, sr \in BOOLEAN :
       SetInit(Construct(pl,
                         [width |-> sz[1], height |-> sz[2], renderScale |-> sc[1],
                          pixelRatio |-> sc[2], singleRender |-> sr],
                         r, 0))

\* engine.start()
Start ==
  /\ singleRender \/ isPlaying \/ nextRafId <= MaxRafId
  /\ Store(start(Enter("start")))

\* engine.stop()
Stop == Store(stop(Enter("stop")))

\* engine.render()
Render == Store(render(Enter("render")))

\* engine.resize(w, h) / engine.resize()
Resize == \E a \in ResizeArgs : Store(resize(Enter("resize"), a[1], a[2]))

\* engine.dispose()
Dispose == Store(dispose(Enter("dispose")))

\* the browser runs a queued animation-frame callback (this.loop)
Frame ==
  /\ nextRafId <= MaxRafId
  /\ \E id \in rafQueue :
       Store(loop([Enter("frame") EXCEPT !.rafQueue = @ \ {id}]))

\* performance.now() moves forward
AdvanceClock ==
  /\ now + 1 <= MaxNow
  /\ Store([Enter("clock") EXCEPT !.now = @ + 1])

\* the page lays the canvas element out at another size
Layout ==
  \E r \in RectSizes : r # rect /\ Store([Enter("layout") EXCEPT !.rect = r])

Next ==
  \/ Start
  \/ Stop
  \/ Render
  \/ Resize
  \/ Dispose
  \/ Frame
  \/ AdvanceClock
  \/ Layout

Spec == Init /\ [][Next]_vars

-----------------------------------------------------------------------------
(* Kernels whose per-frame hook calls back into the engine, or throws *)

\* what one onRender call does besides returning: nothing, engine.stop(),
\* engine.start(), engine.stop() then engine.start(), or raise an error.
\* A hook entered again from inside such a call returns normally.
HookActs == {"plain", "stop", "start", "restart", "throw"}

\* the call in progress was left by an exception
Threw(s) == s.log # <<>> /\ s.log[Len(s.log)].ev = "throw"

\* if (plugin.onRender) plugin.onRender(dt, totalTime), the hook doing b
CallOnRenderDoing(s, dt, b) ==
  LET s1 == CallOnRender(s, dt)
  IN  CASE b = "plain"   -> s1
        [] b = "stop"    -> stop(s1)
        [] b = "start"   -> start(s1)
        [] b = "restart" -> start(stop(s1))
        [] b = "throw"   -> Emit(s1, Event("throw", <<>>))

\* render(): an exception of the hook leaves it before the draw
renderDoing(s, b) ==
  LET s1 == ApplyPendingResize(s)
      s3 == CallOnRenderDoing(AdvanceTime(s1), s1.now - s1.lastTime, b)
  IN  IF Threw(s3) THEN s3 ELSE Draw(s3)

\* start(): an exception of render() leaves it before `isPlaying = false`
\* (single-render) and before requestAnimationFrame (loop)
startDoing(s, b) ==
  IF s.isPlaying THEN s
  ELSE LET s2 == renderDoing([s EXCEPT !.isPlaying = TRUE, !.lastTime = s.now], b)
       IN  IF Threw(s2) THEN s2
           ELSE IF s2.singleRender THEN [s2 EXCEPT !.isPlaying = FALSE]
           ELSE requestAnimationFrame(s2)

\* loop(): isPlaying is read once, before render(); the next callback is
\* requested after render() returns, whatever the hook did meanwhile
loopDoing(s, b) ==
  IF ~s.isPlaying THEN s
  ELSE LET s2 == renderDoing(s, b)
       IN  IF Threw(s2) THEN s2 ELSE requestAnimationFrame(s2)

HkInit ==
  /\ NoElement
  /\ NoOrb
  /\ NoGradient
  /\ NoEase
  /\ \E sr \in BOOLEAN :
       SetInit(Construct(CHOOSE pl \in Plugins : pl.onRender,
                         [width |-> None, height |-> None, renderScale |-> None,
                          pixelRatio |-> None, singleRender |-> sr],
                         [width |-> 0, height |-> 0], 0))

\* engine.start() from the application
HkStart ==
  /\ nextRafId <= MaxHookRafId
  /\ \E b \in HookActs : Store(startDoing(Enter("start"), b))

\* engine.render() from the application
HkRender ==
  /\ nextRafId <= MaxHookRafId
  /\ \E b \in HookActs : Store(renderDoing(Enter("render"), b))

\* the browser runs a queued animation-frame callback (this.loop)
HkFrame ==
  /\ nextRafId <= MaxHookRafId
  /\ \E id \in rafQueue, b \in HookActs :
       Store(loopDoing([Enter("frame") EXCEPT !.rafQueue = @ \ {id}], b))

HkNext ==
  \/ HkStart
  \/ Stop
  \/ HkRender
  \/ HkFrame
  \/ AdvanceClock

SpecHooks == HkInit /\ [][HkNext]_vars

-----------------------------------------------------------------------------
(* ShaderBackgroundElement: the <shader-background> web component *)

\* values given to the renderScale setter and the render-scale attribute (tenths)
ElScales == {30}

\* values of the single-render attribute
ElSingleRenderTexts == {"true", ""}

\* the element's fields, surroundings and history as one record
ElCur ==
  [ engine |-> elEngine, plugin |-> elPlugin, renderScale |-> elRenderScale,
    singleRender |-> elSingleRender, observing |-> elObserving,
    attrs |-> elAttrs, rect |-> elRect, now |-> elNow,
    lastOp |-> elLastOp, log |-> elLog, threw |-> elThrew,
    retired |-> elRetired ]

\* the engine as the element finds it when one of its methods is entered:
\* the clock and the layout are the page's, the engine's call history starts empty
EngineNow(e) ==
  IF e.engine = None THEN None
  ELSE Some([e.engine[1] EXCEPT !.now = e.now, !.rect = e.rect,
                                !.lastOp = "element", !.log = <<>>,
                                !.resizesSinceRender = 0,
                                !.deliveredMs = 0, !.tickMs = 0])

\* the element at the entry of a step named op
ElEnter(op) ==
  [ElCur EXCEPT !.lastOp = op, !.log = <<>>, !.threw = FALSE,
                !.engine = EngineNow(ElCur)]

\* the element records a call it makes on its engine
ElEmit(e, name) == [e EXCEPT !.log = Append(@, name)]

\* Math.max(0.1, Math.min(2.0, value))
ClampRenderScale(v) == Max(ElMinRenderScale, Min(ElMaxRenderScale, v))

\* what is left of an engine the element has let go of
Retired(g) ==
  [ isPlaying |-> g.isPlaying, scheduled |-> g.rafQueue # {},
    animationId |-> g.animationId ]

\* (mutant) drops the engine without stopping or disposing it
ReleaseEngineWithoutStop(e) ==
  IF e.engine = None THEN e
  ELSE [e EXCEPT !.engine = None, !.retired = @ \cup {Retired(e.engine[1])}]

\* if (this.#engine) { this.#engine.stop(); this.#engine.dispose(); this.#engine = null; }
ReleaseEngine(e) ==
  IF e.engine = None THEN e
  ELSE LET g == dispose(stop(e.engine[1]))
           e1 == ElEmit(ElEmit(e, "stop"), "dispose")
       IN  [e1 EXCEPT !.engine = None, !.retired = @ \cup {Retired(g)}]

\* private init()
init(e) ==
  IF e.plugin = None THEN e
  ELSE LET e1 == ReleaseEngine(e)
           width == IF e1.rect.width > 0 THEN e1.rect.width ELSE ElDefaultSize
           height == IF e1.rect.height > 0 THEN e1.rect.height ELSE ElDefaultSize
           g == Construct(e1.plugin[1],
                          [width |-> Some(width), height |-> Some(height),
                           renderScale |-> Some(e1.renderScale), pixelRatio |-> None,
                           singleRender |-> e1.singleRender],
                          e1.rect, e1.now)
           e2 == ElEmit(ElEmit(e1, "new"), "start")
       IN  [e2 EXCEPT !.engine = Some(start(g))]

\* set plugin(plugin)
setPlugin(e, p) == init(ReleaseEngine([e EXCEPT !.plugin = p]))

\* get plugin(): throws 'Plugin is required' when no plugin was set
getPlugin(e) == IF e.plugin = None THEN [e EXCEPT !.threw = TRUE] ELSE e

\* set renderScale(value)
setRenderScale(e, v) == init(ReleaseEngine([e EXCEPT !.renderScale = ClampRenderScale(v)]))

\* set singleRender(value)
setSingleRender(e, b) == init(ReleaseEngine([e EXCEPT !.singleRender = b]))

\* (mutant) renders whenever an engine exists, whatever the mode
elRenderAnyMode(e) ==
  IF e.engine # None
  THEN [ElEmit(e, "render") EXCEPT !.engine = Some(render(e.engine[1]))]
  ELSE e

\* public render()
elRender(e) ==
  IF e.engine # None /\ e.singleRender
  THEN [ElEmit(e, "render") EXCEPT !.engine = Some(render(e.engine[1]))]
  ELSE e

\* this.#engine.resize(width, height) with the element's box
ElResizeEngine(e) ==
  IF e.engine # None
  THEN [ElEmit(e, "resize") EXCEPT
          !.engine = Some(resize(e.engine[1], Some(e.rect.width), Some(e.rect.height)))]
  ELSE e

\* connectedCallback()
connectedCallback(e) ==
  LET rs == e.attrs.renderScale
      sr == e.attrs.singleRender
      e1 == IF rs # None THEN [e EXCEPT !.renderScale = ClampRenderScale(rs[1])] ELSE e
      e2 == IF sr # None /\ sr[1] # ""
            THEN [e1 EXCEPT !.singleRender = (sr[1] = "true" \/ sr[1] = "")]
            ELSE e1
      e3 == [e2 EXCEPT !.observing = TRUE]
      e4 == IF e3.plugin # None THEN init(e3) ELSE e3
  IN  ElResizeEngine(e4)

\* disconnectedCallback()
disconnectedCallback(e) ==
  LET e1 == [e EXCEPT !.observing = FALSE]
  IN  IF e1.engine = None THEN e1
      ELSE [ElEmit(e1, "dispose") EXCEPT
              !.engine = None,
              !.retired = @ \cup {Retired(dispose(e1.engine[1]))}]

\* attributeChangedCallback(name, oldValue, newValue); a removed attribute
\* has the value null, which parseFloat turns into NaN
attributeChangedCallback(e, name, old, new) ==
  IF old = new THEN e
  ELSE IF name = "render-scale"
       THEN (IF new # None THEN setRenderScale(e, new[1]) ELSE e)
       ELSE IF name = "single-render"
            THEN setSingleRender(e, new # None /\ (new[1] = "true" \/ new[1] = ""))
            ELSE e

\* the ResizeObserver callback
observerCallback(e) == ElResizeEngine(e)

ElStore(e) ==
  /\ elEngine' = e.engine
  /\ elPlugin' = e.plugin
  /\ elRenderScale' = e.renderScale
  /\ elSingleRender' = e.singleRender
  /\ elObserving' = e.observing
  /\ elAttrs' = e.attrs
  /\ elRect' = e.rect
  /\ elNow' = e.now
  /\ elLastOp' = e.lastOp
  /\ elLog' = e.log
  /\ elThrew' = e.threw
  /\ elRetired' = e.retired
  /\ UNCHANGED canvasVars
  /\ UNCHANGED gpVars
  /\ UNCHANGED easeVars
  /\ UNCHANGED orbVars

\* the element right after document.createElement('shader-background')
ElInit ==
  /\ NoElement
  /\ NoOrb
  /\ NoGradient
  /\ NoEase
  /\ IdleCanvas

\* the page inserts the element into the document
ElConnect ==
  /\ ~elObserving
  /\ ElStore(connectedCallback(ElEnter("connect")))

\* the page removes the element from the document
ElDisconnect ==
  /\ elObserving
  /\ ElStore(disconnectedCallback(ElEnter("disconnect")))

\* el.plugin = p
ElSetPlugin ==
  /\ \E p \in Plugins : ElStore(setPlugin(ElEnter("setPlugin"), Some(p)))

\* el.plugin read
ElGetPlugin == ElStore(getPlugin(ElEnter("getPlugin")))

\* el.renderScale = v
ElSetRenderScale ==
  /\ \E v \in ElScales : ElStore(setRenderScale(ElEnter("setRenderScale"), v))

\* el.singleRender = b
ElSetSingleRender ==
  /\ \E b \in BOOLEAN : ElStore(setSingleRender(ElEnter("setSingleRender"), b))

\* el.render()
ElRender == ElStore(elRender(ElEnter("render")))

\* el.setAttribute / el.removeAttribute; the browser then calls
\* attributeChangedCallback with the old and the new value
ElSetAttribute ==
  \/ \E v \in {None} \cup {Some(x) : x \in ElScales} :
       ElStore(attributeChangedCallback(
                 [ElEnter("attribute") EXCEPT !.attrs.renderScale = v],
                 "render-scale", elAttrs.renderScale, v))
  \/ \E v \in {None} \cup {Some(x) : x \in ElSingleRenderTexts} :
       ElStore(attributeChangedCallback(
                 [ElEnter("attribute") EXCEPT !.attrs.singleRender = v],
                 "single-render", elAttrs.singleRender, v))

\* the ResizeObserver reports the element's box
ElObserved ==
  /\ elObserving
  /\ ElStore(observerCallback(ElEnter("observed")))

\* the browser runs a queued animation-frame callback of the engine
ElFrame ==
  /\ elEngine # None
  /\ elEngine[1].nextRafId <= MaxRafId
  /\ LET e == ElEnter("frame")
     IN  \E id \in e.engine[1].rafQueue :
           ElStore([e EXCEPT !.engine =
                      Some(loop([e.engine[1] EXCEPT !.rafQueue = @ \ {id}]))])

\* performance.now() moves forward
ElAdvanceClock ==
  /\ elNow + 1 <= ElMaxNow
  /\ ElStore([ElEnter("clock") EXCEPT !.now = @ + 1])

\* the page lays the element out at another size
ElLayout ==
  \E r \in RectSizes : r # elRect /\ ElStore([ElEnter("layout") EXCEPT !.rect = r])

ElNext ==
  \/ ElConnect
  \/ ElDisconnect
  \/ ElSetPlugin
  \/ ElGetPlugin
  \/ ElSetRenderScale
  \/ ElSetSingleRender
  \/ ElRender
  \/ ElSetAttribute
  \/ ElObserved
  \/ ElFrame
  \/ ElAdvanceClock
  \/ ElLayout

SpecElement == ElInit /\ [][ElNext]_vars

-----------------------------------------------------------------------------
(* GradientPlugin as a state machine *)

\* the plugin's fields as one record
GpCur ==
  [ pointsConfig |-> gpPointsConfig, defaultMotion |-> gpDefaultMotion,
    parsedColors |-> gpParsedColors, colorStates |-> gpColorStates,
    motionStates |-> gpMotionStates, uniforms |-> gpUniforms, threw |-> FALSE ]

GpStore(g, op, dt) ==
  /\ gpPointsConfig' = g.pointsConfig
  /\ gpDefaultMotion' = g.defaultMotion
  /\ gpParsedColors' = g.parsedColors
  /\ gpColorStates' = g.colorStates
  /\ gpMotionStates' = g.motionStates
  /\ gpUniforms' = g.uniforms
  /\ gpLastOp' = op
  /\ gpLastDt' = dt
  /\ gpThrew' = g.threw
  /\ UNCHANGED << gpRegistered, gpEdits >>
  /\ UNCHANGED canvasVars
  /\ UNCHANGED elVars
  /\ UNCHANGED easeVars
  /\ UNCHANGED orbVars

\* the plugin right after new GradientPlugin(points, options)
GpInit ==
  /\ NoElement
  /\ NoOrb
  /\ NoEase
  /\ IdleCanvas
  /\ \E a \in GpArgs : \E rnd \in DrawsFor(a.points, a.options.defaultMotion) :
       LET g == GradientPlugin(a.points, a.options, rnd)
       IN  /\ gpPointsConfig = g.pointsConfig
           /\ gpDefaultMotion = g.defaultMotion
           /\ gpParsedColors = g.parsedColors
           /\ gpColorStates = g.colorStates
           /\ gpMotionStates = g.motionStates
           /\ gpUniforms = g.uniforms
           /\ gpRegistered = a.points
           /\ gpLastOp = "construct"
           /\ gpLastDt = 0
           /\ gpThrew = g.threw
           /\ gpEdits = <<>>

\* the engine calls plugin.onRender(dt, totalTime)
GpOnRender ==
  \E dt \in Dts : \E rnd \in TickDraws(GpCur, dt) :
    GpStore(onRender(GpCur, dt, rnd), "onRender", dt)

\* the caller assigns a field of the point object at index i, which is the
\* object pointsConfig holds: p is the point after the assignment
GpEdit(i, field, p) ==
  /\ Len(gpEdits) < MaxEdits
  /\ gpPointsConfig' = [gpPointsConfig EXCEPT ![i] = p]
  /\ gpRegistered' = [gpRegistered EXCEPT ![i] = p]
  /\ gpEdits' = Append(gpEdits, << i, field >>)
  /\ gpLastOp' = "edit"
  /\ gpLastDt' = 0
  /\ gpThrew' = FALSE
  /\ UNCHANGED << gpDefaultMotion, gpParsedColors, gpColorStates, gpMotionStates,
                  gpUniforms >>
  /\ UNCHANGED canvasVars
  /\ UNCHANGED elVars
  /\ UNCHANGED easeVars
  /\ UNCHANGED orbVars

\* p.x = ...; p.y = ...
GpSetBase ==
  \E i \in EditIdx(gpPointsConfig) : \E b \in BaseChoices :
    GpEdit(i, "base", [gpPointsConfig[i] EXCEPT !.x = b[1], !.y = b[2]])

\* p.colors = [...]
GpSetColors ==
  \E i \in EditIdx(gpPointsConfig) : \E c \in ColourChoices :
    GpEdit(i, "colors", [gpPointsConfig[i] EXCEPT !.colors = c])

\* p.motion = {...}
GpSetMotion ==
  \E i \in EditIdx(gpPointsConfig) :
    \E m \in MotionChoices(gpDefaultMotion, gpPointsConfig[i]) :
      GpEdit(i, "motion", [gpPointsConfig[i] EXCEPT !.motion = m])

GpNext ==
  \/ GpOnRender
  \/ GpSetBase
  \/ GpSetColors
  \/ GpSetMotion

SpecGradient == GpInit /\ [][GpNext]_vars

-----------------------------------------------------------------------------
(* The caller adds points to, and removes points from, the array it gave *)

\* the point a caller adds
AddedPoint == Point(R(-1, 2), R(-1, 2), << Green >>, None, None)

\* how many collection edits of the kind named are in the edit log
EditCount(kind) == Cardinality({k \in 1..Len(gpEdits) : gpEdits[k][2] = kind})

\* `this.pointsConfig = points` holds the caller's array itself unless the
\* constructor replaced it by points.slice(0, MAX_POINTS), which it does when
\* more than MAX_POINTS points were given
Aliased ==
  Len(gpRegistered) - EditCount("add") + EditCount("remove") <= MAX_POINTS

\* the caller's array becomes pts; the plugin's list follows only if it is
\* the same array
GpCollectionEdit(pts, i, kind) ==
  /\ Len(gpEdits) < MaxEdits
  /\ gpRegistered' = pts
  /\ gpPointsConfig' = IF Aliased THEN pts ELSE gpPointsConfig
  /\ gpEdits' = Append(gpEdits, << i, kind >>)
  /\ gpLastOp' = kind
  /\ gpLastDt' = 0
  /\ gpThrew' = FALSE
  /\ UNCHANGED << gpDefaultMotion, gpParsedColors, gpColorStates, gpMotionStates,
                  gpUniforms >>
  /\ UNCHANGED canvasVars
  /\ UNCHANGED elVars
  /\ UNCHANGED easeVars
  /\ UNCHANGED orbVars

\* points.push(p)
GpAddPoint ==
  GpCollectionEdit(Append(gpRegistered, AddedPoint), Len(gpRegistered) + 1, "add")

\* points.splice(i - 1, 1), for the first and the last point
GpRemovePoint ==
  \E i \in {1, Len(gpRegistered)} \cap (1..Len(gpRegistered)) :
    GpCollectionEdit(SubSeq(gpRegistered, 1, i - 1)
                       \o SubSeq(gpRegistered, i + 1, Len(gpRegistered)),
                     i, "remove")

GpCollectionNext ==
  \/ GpOnRender
  \/ GpAddPoint
  \/ GpRemovePoint

SpecCollection == GpInit /\ [][GpCollectionNext]_vars

-----------------------------------------------------------------------------
(* LiquidOrbPlugin: orbs that drift and bounce off the walls at -1 and 1 *)
(* Places, velocities and radii are whole numbers of 1/OrbUnit; a         *)
(* Math.random() result is a number of quarters; the speed multiplier is  *)
(* a number of halves.  The values tried make every product exact.        *)

MAX_ORBS == 20
DefaultOrbCount == 5
FrameMs == 16
OrbUnit == 10000
SpeedDen == 2
RandomDen == 4

\* config.speed ?? 0.5, in halves
DefaultOrbSpeed == 1

\* the walls at -1.0 and 1.0
WallLo == -OrbUnit
WallHi == OrbUnit

\* Math.min(config.count ?? 5, MAX_ORBS)
OrbCount(count) == Min(Nullish(count, DefaultOrbCount), MAX_ORBS)

\* one orb of the constructor's loop; u are its five Math.random() results:
\* (u * 2 - 1) * 0.8, (u - 0.5) * 0.01, 0.2 + u * 0.2
NewOrb(u) ==
  [ x |-> ((u[1] * 2 - RandomDen) * 8 * OrbUnit) \div (10 * RandomDen),
    y |-> ((u[2] * 2 - RandomDen) * 8 * OrbUnit) \div (10 * RandomDen),
    vx |-> ((2 * u[3] - RandomDen) * OrbUnit) \div (2 * RandomDen * 100),
    vy |-> ((2 * u[4] - RandomDen) * OrbUnit) \div (2 * RandomDen * 100),
    radius |-> (2 * OrbUnit) \div 10 + (u[5] * 2 * OrbUnit) \div (10 * RandomDen) ]

\* new LiquidOrbPlugin(config); rnd[i] are the random numbers of orb i
LiquidOrbPlugin(config, rnd) ==
  [ orbs |-> [i \in 1..OrbCount(config.count) |-> NewOrb(rnd[i])],
    orbData |-> [i \in 1..MAX_ORBS |-> << 0, 0, 0 >>],
    speedMultiplier |-> Nullish(config.speed, DefaultOrbSpeed) ]

\* if (pos < -1.0 || pos > 1.0) v *= -1
Bounce(pos, v) == IF pos < WallLo \/ pos > WallHi THEN -v ELSE v

\* pos += v * this.speedMultiplier * (dt / 16)
Drift(pos, v, speed, dt) == pos + (v * speed * dt) \div (SpeedDen * FrameMs)

\* the body of the loop of onRender for one orb, from the drifted position
Bounced(orb, x, y) ==
  [orb EXCEPT !.x = x, !.y = y, !.vx = Bounce(x, orb.vx), !.vy = Bounce(y, orb.vy)]

\* one orb after onRender(dt)
StepOrb(orb, speed, dt) ==
  Bounced(orb, Drift(orb.x, orb.vx, speed, dt), Drift(orb.y, orb.vy, speed, dt))

\* onRender(dt) after the orbs were stepped: each is written to its triplet
WriteOrbs(o, stepped) ==
  [o EXCEPT
     !.orbs = stepped,
     !.orbData = [i \in 1..MAX_ORBS |->
                    IF i <= Len(stepped)
                    THEN << stepped[i].x, stepped[i].y, stepped[i].radius >>
                    ELSE o.orbData[i]]]

\* onRender(dt)
OrbOnRender(o, dt) ==
  WriteOrbs(o, [i \in 1..Len(o.orbs) |-> StepOrb(o.orbs[i], o.speedMultiplier, dt)])

\* the Math.random() results tried for an orb: x, y, vx, vy, radius
\* in quarters
OrbDraws ==
  { << ux, 2, uvx, uvy, 0 >> : ux \in {2, 3}, uvx \in {0, 3}, uvy \in {2, 3} }

\* the configurations tried: one orb, speed 32
OrbConfigs == { [count |-> Some(1), speed |-> Some(32 * SpeedDen)] }

\* the frame times tried: a regular frame, and a frame after a pause
OrbDts == {16, 160}

OrbCur == [orbs |-> orbs, orbData |-> orbData, speedMultiplier |-> speedMultiplier]

\* the orb lies inside the part of the plane the model follows
Followed(o) ==
  \A i \in 1..Len(o.orbs) :
    /\ -MaxOrbAbs * OrbUnit <= o.orbs[i].x /\ o.orbs[i].x <= MaxOrbAbs * OrbUnit
    /\ -MaxOrbAbs * OrbUnit <= o.orbs[i].y /\ o.orbs[i].y <= MaxOrbAbs * OrbUnit

OrbInit ==
  /\ NoElement
  /\ NoGradient
  /\ NoEase
  /\ IdleCanvas
  /\ \E c \in OrbConfigs : \E rnd \in [1..OrbCount(c.count) -> OrbDraws] :
       /\ orbs = LiquidOrbPlugin(c, rnd).orbs
       /\ orbData = LiquidOrbPlugin(c, rnd).orbData
       /\ speedMultiplier = LiquidOrbPlugin(c, rnd).speedMultiplier
       /\ orbLastOp = "construct"

\* the engine calls plugin.onRender(dt)
OrbTick ==
  \E dt \in OrbDts :
    /\ Followed(OrbOnRender(OrbCur, dt))
    /\ orbs' = OrbOnRender(OrbCur, dt).orbs
    /\ orbData' = OrbOnRender(OrbCur, dt).orbData
    /\ speedMultiplier' = speedMultiplier
    /\ orbLastOp' = "onRender"
    /\ UNCHANGED canvasVars
    /\ UNCHANGED elVars
    /\ UNCHANGED gpVars
    /\ UNCHANGED easeVars

OrbNext == OrbTick

\* a running engine calls onRender once per animation frame, for ever
SpecOrb == OrbInit /\ [][OrbNext]_vars /\ WF_vars(OrbTick)

-----------------------------------------------------------------------------
(* The easing curves, one progress value after another *)

\* #ease is applied to the progress -1
EaseInit ==
  /\ NoElement
  /\ NoOrb
  /\ NoGradient
  /\ IdleCanvas
  /\ easeKind \in EaseKinds
  /\ easeT = Num(-1)
  /\ easeY = ease(Num(-1), easeKind)

\* #ease is applied to the next progress value, up to 2
EaseStep ==
  /\ RLt(easeT, Num(2))
  /\ easeT' = RAdd(easeT, R(1, EaseGrid))
  /\ easeY' = ease(RAdd(easeT, R(1, EaseGrid)), easeKind)
  /\ UNCHANGED easeKind
  /\ UNCHANGED canvasVars
  /\ UNCHANGED elVars
  /\ UNCHANGED gpVars
  /\ UNCHANGED orbVars

EaseNext == EaseStep

SpecEase == EaseInit /\ [][EaseNext]_vars

-----------------------------------------------------------------------------
(* Observations on the call log *)

EventsOf(l, name) == SelectSeq(l, LAMBDA e : e.ev = name)

CountOf(l, name) == Len(EventsOf(l, name))

NamesOf(l) == [i \in 1..Len(l) |-> l[i].ev]

Buffer == <<canvas.width, canvas.height>>

\* the calls one frame makes, in order, given whether a resize was pending
\* and whether the kernel implements onRender
FrameCalls(pending, hook) ==
  (IF pending THEN <<"setSize">> ELSE <<>>) \o <<"clock">>
    \o (IF hook THEN <<"onRender">> ELSE <<>>) \o <<"draw">>

\* the step taken is the one named op (every action records its name)
Called(op) == lastOp' = op

\* the step draws a frame on request: render(), or start() on a stopped engine
Renders == Called("render") \/ (Called("start") /\ ~isPlaying)

-----------------------------------------------------------------------------
(* Claims *)

\* C1: in single-render mode a resize() step leaves the drawing buffer (canvas
\* width/height, renderer size, pixels) exactly as it was; the buffer always
\* has the size it had at the last draw or at construction; and a step that
\* changes the buffer size is a render (render() itself or the one in start()).
C1_ResizeKeepsBuffer ==
  /\ [][(singleRender /\ Called("resize")) =>
          /\ canvas'.width = canvas.width
          /\ canvas'.height = canvas.height
          /\ rendererSize' = rendererSize
          /\ pixels' = pixels
          /\ CountOf(log', "setSize") = 0]_vars
  /\ [][(singleRender /\ (Buffer' # Buffer \/ rendererSize' # rendererSize)) =>
          Renders]_vars
  /\ [](singleRender => (Buffer = renderedBuf /\ rendererSize = renderedBuf))

\* C1 witness: two resizes since the last drawn frame, the frame still in
\* the buffer, and a pending size that differs from the buffer size.
C1_Witness ==
  /\ singleRender
  /\ lastOp = "resize"
  /\ resizesSinceRender = 2
  /\ pixels = "frame"
  /\ pendingResize # None
  /\ pendingResize[1] # Buffer

\* C2: in single-render mode a render that starts with a resize pending makes
\* exactly one buffer reallocation, as its first call (before the draw), to
\* max(1, floor(display * scale)) of the display size current at that moment
\* (that of the latest resize), and leaves nothing pending.
C2_RenderAppliesLatestResizeOnce ==
  [][(singleRender /\ pendingResize # None /\ Renders) =>
       LET target == << BufferDim(displayWidth, renderScale),
                        BufferDim(displayHeight, renderScale) >>
       IN  /\ CountOf(log', "setSize") = 1
           /\ log'[1] = Event("setSize", target)
           /\ log'[Len(log')].ev = "draw"
           /\ Buffer' = target
           /\ rendererSize' = target
           /\ pendingResize' = None
           /\ pixels' = "frame"]_vars

\* C2 witness: a frame drawn after two resizes, whose single reallocation
\* changed the buffer to the size of the second one.
C2_Witness ==
  /\ singleRender
  /\ lastOp = "render"
  /\ CountOf(log, "setSize") = 1
  /\ log[Len(log)].ev = "draw"
  /\ log[Len(log)].args[6] = 2
  /\ log[1].args = Buffer
  /\ pendingResize = None

\* the engine's own state and the browser's frame queue
EngineState ==
  << animationId, lastTime, totalTime, isPlaying, renderScale, singleRender,
     displayWidth, displayHeight, pendingResize, plugin, uniforms, canvas,
     rendererSize, rafQueue, nextRafId, pixels >>

\* C3: after stop() the engine is not playing, holds no frame handle and no
\* animation-frame callback is queued; while it is not playing no callback is
\* queued, so the loop cannot tick, and a loop callback that found the engine
\* stopped would draw nothing; a stop() right after a stop() changes nothing.
C3_StopImmediateIdempotent ==
  /\ [][Called("stop") => (~isPlaying' /\ animationId' = None /\ rafQueue' = {})]_vars
  /\ [](~isPlaying => rafQueue = {})
  /\ [][(Called("frame") /\ ~isPlaying) => CountOf(log', "draw") = 0]_vars
  /\ [][Called("frame") => isPlaying]_vars
  /\ [][(lastOp = "stop" /\ Called("stop")) => UNCHANGED EngineState]_vars

\* C3 witness: a stop() that cancelled the frame the running loop had queued.
C3_Witness ==
  /\ ~singleRender
  /\ lastOp = "stop"
  /\ CountOf(log, "cancel") = 1
  /\ pixels = "frame"
  /\ ~isPlaying
  /\ nextRafId > 2

\* C4: in single-render mode every start() draws exactly one frame (one draw,
\* one onRender when the kernel implements it), queues no animation frame and
\* leaves the engine not playing; the engine is never playing and never has a
\* frame queued between calls, so no start() is ever skipped.
C4_SingleShotStart ==
  /\ [][(singleRender /\ Called("start")) =>
          /\ CountOf(log', "draw") = 1
          /\ CountOf(log', "onRender") = (IF plugin.onRender THEN 1 ELSE 0)
          /\ CountOf(log', "raf") = 0
          /\ ~isPlaying'
          /\ animationId' = None
          /\ rafQueue' = {}]_vars
  /\ [](singleRender => (~isPlaying /\ animationId = None /\ rafQueue = {}))

\* C4 witness: a single-render start() that followed an earlier frame (the
\* clock has moved since construction and time has been accumulated).
C4_Witness ==
  /\ singleRender
  /\ lastOp = "start"
  /\ plugin.onRender
  /\ CountOf(log, "draw") = 1
  /\ CountOf(log, "onRender") = 1
  /\ totalTime > 0
  /\ ~isPlaying

\* C5: totalTime is never negative, no step decreases it, it equals the sum
\* of the dt of all frames (and of the dt passed to onRender when the kernel
\* implements it), and stop(), start(), resize() and dispose() do not reset it.
C5_TotalTimeIsSumOfDt ==
  /\ [](totalTime >= 0 /\ totalTime = tickMs)
  /\ [](plugin.onRender => totalTime = deliveredMs)
  /\ [][totalTime' >= totalTime]_vars
  /\ [][(Called("stop") \/ Called("resize") \/ Called("dispose") \/ Called("layout") \/ Called("clock")) => totalTime' = totalTime]_vars

\* C5 witness: time accumulated over frames, then a stop().
C5_Witness ==
  /\ plugin.onRender
  /\ totalTime >= 2
  /\ deliveredMs = totalTime
  /\ lastOp = "stop"
  /\ pixels = "frame"

\* C6: every frame makes its calls once each and in the order: apply the
\* pending resize (if any), read the clock and add dt, onRender(dt, total) (if
\* implemented), draw; onRender and the draw see the total that already
\* includes dt; the loop queues the next frame only after the draw.
C6_FrameOrder ==
  /\ [][Called("render") =>
          LET dt == now - lastTime
              l == log'
          IN  /\ NamesOf(l) = FrameCalls(pendingResize # None, plugin.onRender)
              /\ \A i \in 1..Len(l) :
                   /\ l[i].ev = "onRender" => l[i].args = <<dt, totalTime + dt>>
                   /\ l[i].ev = "draw" =>
                        (l[i].args[1] = totalTime + dt /\ l[i].args[5] = Buffer')]_vars
  /\ [][(Called("start") /\ ~isPlaying) =>
          NamesOf(log') = FrameCalls(pendingResize # None, plugin.onRender)
                            \o (IF singleRender THEN <<>> ELSE <<"raf">>)]_vars
  /\ [][(Called("frame") /\ isPlaying) =>
          NamesOf(log') = FrameCalls(pendingResize # None, plugin.onRender)
                            \o <<"raf">>]_vars

\* C6 witness: a render() that went through all four steps with dt > 0.
C6_Witness ==
  /\ lastOp = "render"
  /\ NamesOf(log) = <<"setSize", "clock", "onRender", "draw">>
  /\ log[3].args[1] > 0

\* C7: the drawing buffer, the renderer size and a pending resize are at
\* least 1 in each axis in every reachable state.
C7_BufferAtLeastOne ==
  /\ canvas.width >= 1
  /\ canvas.height >= 1
  /\ rendererSize[1] >= 1
  /\ rendererSize[2] >= 1
  /\ pendingResize # None => (pendingResize[1][1] >= 1 /\ pendingResize[1][2] >= 1)

\* C7 witness: a deferred resize requested with a zero width whose pending
\* width was clamped to 1, on a buffer that a tiny scale had clamped too.
C7_Witness ==
  /\ singleRender
  /\ pendingResize # None
  /\ displayWidth = 0
  /\ pendingResize[1][1] = 1
  /\ canvas.width = 1

\* C8: at every draw call uTime equals totalTime and uResolution equals the
\* display size, whatever uniforms the kernel declares.
C8_DrawUniforms ==
  \A i \in 1..Len(log) :
    log[i].ev = "draw" =>
      /\ log[i].args[1] = log[i].args[3]
      /\ log[i].args[2] = log[i].args[4]

\* C9: stop() changes neither the pending resize nor the display size, the
\* buffer or totalTime; a resize pending at a render is the size the buffer
\* has after it.
C9_StopKeepsPendingResize ==
  /\ [][Called("stop") => UNCHANGED << pendingResize, displayWidth, displayHeight, canvas,
                             rendererSize, pixels, totalTime >>]_vars
  /\ [][(pendingResize # None /\ (Renders \/ (Called("frame") /\ isPlaying))) =>
          (Buffer' = pendingResize[1] /\ pendingResize' = None)]_vars

\* C9 witness: a stop() called while a deferred resize was pending.
C9_Witness ==
  /\ lastOp = "stop"
  /\ pendingResize # None
  /\ pendingResize[1] # Buffer
  /\ totalTime > 0

\* C10: the display size the engine stores, holds in uResolution and passes
\* to onResize is at least 1 in each axis.
C10_DisplayAtLeastOne ==
  /\ displayWidth >= 1
  /\ displayHeight >= 1
  /\ (plugin.uResolution = None => (uniforms.uResolution[1] >= 1 /\ uniforms.uResolution[2] >= 1))
  /\ \A i \in 1..Len(log) :
       log[i].ev = "onResize" => (log[i].args[1] >= 1 /\ log[i].args[2] >= 1)

\* a step that runs one frame: render(), start() on a stopped engine, or the
\* loop callback on a playing engine
RunsFrame ==
  \/ Called("render")
  \/ (Called("start") /\ ~isPlaying)
  \/ (Called("frame") /\ isPlaying)

\* C11: a frame that starts with nothing pending makes no buffer
\* reallocation and leaves the buffer size as it was; every frame leaves
\* nothing pending, so a render() right after a render() reallocates nothing.
C11_NoPendingNoRealloc ==
  /\ [][(RunsFrame /\ pendingResize = None) =>
          /\ CountOf(log', "setSize") = 0
          /\ Buffer' = Buffer
          /\ rendererSize' = rendererSize
          /\ pendingResize' = None]_vars
  /\ [][(lastOp = "render" /\ Called("render")) =>
          (CountOf(log, "setSize") + CountOf(log', "setSize") <= 1
           /\ CountOf(log', "setSize") = 0)]_vars

\* C11 witness: a second frame, drawn with no resize since the previous
\* draw, that made no reallocation in a mode where resizes are deferred.
C11_Witness ==
  /\ singleRender
  /\ lastOp = "render"
  /\ CountOf(log, "setSize") = 0
  /\ log[Len(log)].ev = "draw"
  /\ log[Len(log)].args[6] = 0
  /\ log[1].ev = "clock"
  /\ log[1].args[1] > 0
  /\ log[1].args[1] < totalTime

\* C12: the dt of every frame, as computed and as passed to onRender, is
\* now - lastTime and is never negative (it equals max(0, now - lastTime)).
C12_DtNonNegative ==
  /\ [](lastTime <= now)
  /\ [][RunsFrame =>
          \A i \in 1..Len(log') :
            (log'[i].ev = "onRender" \/ log'[i].ev = "clock") =>
              /\ log'[i].args[1] >= 0
              /\ log'[i].args[1] =
                   Max(0, now - (IF Called("start") THEN now ELSE lastTime))]_vars

\* C12 witness: a frame whose kernel hook received a positive dt.
C12_Witness ==
  /\ lastOp = "frame"
  /\ CountOf(log, "onRender") = 1
  /\ EventsOf(log, "onRender")[1].args[1] > 0

\* C13: a frame that runs D ms after the previous one, with the engine not
\* restarted in between, reads the clock once, adds the whole D to totalTime,
\* calls onRender once (when implemented) with dt = D, and draws once.
C13_OneDtNoCatchUp ==
  [][(Called("render") \/ (Called("frame") /\ isPlaying)) =>
       LET D == now - lastTime
       IN  /\ CountOf(log', "clock") = 1
           /\ CountOf(log', "draw") = 1
           /\ CountOf(log', "onRender") = (IF plugin.onRender THEN 1 ELSE 0)
           /\ \A i \in 1..Len(log') :
                log'[i].ev = "onRender" => log'[i].args = <<D, totalTime + D>>
           /\ totalTime' = totalTime + D
           /\ lastTime' = now]_vars

\* C13 witness: a loop frame that came two clock steps after the previous
\* one and delivered both at once.
C13_Witness ==
  /\ lastOp = "frame"
  /\ ~singleRender
  /\ CountOf(log, "onRender") = 1
  /\ EventsOf(log, "onRender")[1].args[1] >= 2

\* the element step taken is the one named op
ElCalled(op) == elLastOp' = op

\* the frames the element's engine drew during the last step
ElDraws(eng) == IF eng = None THEN 0 ELSE CountOf(eng[1].log, "draw")

\* C14: (original statement) an explicit render() on an element that has no
\* kernel attached raises an error: after such a step a fault has been thrown.
C14_RenderWithoutPluginFaults ==
  (elLastOp = "render" /\ elPlugin = None) => elThrew

\* C15: the element's render() draws exactly one frame (one engine.render()
\* call) when singleRender is true and an engine exists; in every other state
\* it calls nothing on the engine, draws nothing and leaves the engine's
\* picture and time as they were.
C15_RenderOnlySingleRender ==
  [][ElCalled("render") =>
       IF elEngine # None /\ elSingleRender
       THEN /\ elLog' = <<"render">>
            /\ ElDraws(elEngine') = 1
            /\ elEngine'[1].pixels = "frame"
       ELSE /\ elLog' = <<>>
            /\ ElDraws(elEngine') = 0
            /\ (elEngine = None) = (elEngine' = None)
            /\ elEngine # None =>
                 /\ elEngine'[1].totalTime = elEngine[1].totalTime
                 /\ elEngine'[1].lastTime = elEngine[1].lastTime
                 /\ elEngine'[1].pixels = elEngine[1].pixels
                 /\ elEngine'[1].canvas = elEngine[1].canvas]_vars

\* C15 witness: render() on a single-render element with an engine drew one
\* frame, later than the frame start() drew (time has passed since).
C15_Witness ==
  /\ elLastOp = "render"
  /\ elSingleRender
  /\ elEngine # None
  /\ ElDraws(elEngine) = 1
  /\ elEngine[1].totalTime > 0

\* C16: a plugin, renderScale or singleRender assignment on an element that
\* has a plugin stops and disposes the previous engine (if any) before it
\* creates and starts the new one; the new engine is the only live one: every
\* engine the element has let go of is stopped and has no frame scheduled.
C16_SetterRecreatesEngine ==
  /\ [](\A r \in elRetired :
          ~r.isPlaying /\ ~r.scheduled /\ r.animationId = None)
  /\ [][((ElCalled("setPlugin") \/ ElCalled("setRenderScale")
           \/ ElCalled("setSingleRender")) /\ elPlugin' # None) =>
          /\ elLog' = (IF elEngine # None THEN <<"stop", "dispose">> ELSE <<>>)
                        \o <<"new", "start">>
          /\ elEngine' # None
          /\ elEngine'[1].plugin = elPlugin'[1]
          /\ elEngine'[1].singleRender = elSingleRender'
          /\ elEngine'[1].renderScale = elRenderScale' * DefaultPixelRatio
          /\ elEngine'[1].lastOp = "construct"
          /\ ElDraws(elEngine') = 1
          /\ elEngine'[1].isPlaying = ~elSingleRender'
          /\ (elEngine'[1].rafQueue # {}) = ~elSingleRender'
          /\ (elEngine # None) => elRetired' # {}]_vars

\* C16 witness: a renderScale assignment replaced a running engine that had
\* frames scheduled; the replaced engine is idle and the new one is running.
C16_Witness ==
  /\ elLastOp = "setRenderScale"
  /\ elLog = <<"stop", "dispose", "new", "start">>
  /\ elRetired # {}
  /\ elEngine # None
  /\ elEngine[1].isPlaying
  /\ elEngine[1].rafQueue # {}

\* the gradient step taken is a call of op
GpCalled(op) == gpLastOp' = op

\* the gradient step taken is a call of op that returned normally
GpReturned(op) == gpLastOp' = op /\ ~gpThrew'

\* the caller has assigned the field of the point at index i since the
\* plugin was constructed
Edited(i, field) == \E k \in 1..Len(gpEdits) : gpEdits[k] = << i, field >>

\* the motion the point at index i resolves to
MotionOf(i) == resolveMotion(gpDefaultMotion, gpPointsConfig[i])

\* the indices of the points that follow a non-empty path
PathIdx ==
  {i \in 1..Len(gpPointsConfig) :
     MotionOf(i).mode = "path" /\ Len(MotionOf(i).path) > 0}

\* the k-th waypoint (from 0) of point i, clamped to the point's bounds
Waypoint(i, k) ==
  LET r == MotionOf(i)
  IN  << clamp(r.path[k + 1].x, r.bounds.minX, r.bounds.maxX),
         clamp(r.path[k + 1].y, r.bounds.minY, r.bounds.maxY) >>

\* C17: a plugin made from n points tracks the first min(n, 16) of them in
\* their order: its point list, its colour, motion and parsed-colour lists
\* and uPointCount all have min(n, 16) entries, the uniform arrays hold the
\* places and first colours of those points followed by zeros, and later
\* onRender calls keep the count.
C17_TracksFirstSixteen ==
  LET n == Len(gpRegistered)
      m == IF n < MAX_POINTS THEN n ELSE MAX_POINTS
  IN  /\ gpPointsConfig = SubSeq(gpRegistered, 1, m)
      /\ gpUniforms.uPointCount = m
      /\ Len(gpParsedColors) = m
      /\ Len(gpColorStates) = m
      /\ Len(gpMotionStates) = m
      /\ DOMAIN gpUniforms.uPoints = 1..MAX_POINTS
      /\ DOMAIN gpUniforms.uColors = 1..MAX_POINTS
      /\ \A i \in (m + 1)..MAX_POINTS :
           /\ gpUniforms.uPoints[i] = << Num(0), Num(0) >>
           /\ gpUniforms.uColors[i] = << Num(0), Num(0), Num(0) >>
      /\ gpLastOp = "construct" =>
           \A i \in 1..m :
             /\ gpUniforms.uPoints[i] = << gpRegistered[i].x, gpRegistered[i].y >>
             /\ Len(gpRegistered[i].colors) > 0 =>
                  gpUniforms.uColors[i] = ParseColor(gpRegistered[i].colors[1])

\* C17 witness: more points than the cap were registered (20), 16 are
\* tracked, and a frame has been rendered with them.
C17_Witness ==
  /\ Len(gpRegistered) = MaxRegistered
  /\ gpUniforms.uPointCount = MAX_POINTS
  /\ gpLastOp = "onRender"
  /\ gpUniforms.uPoints[MAX_POINTS] =
       << gpRegistered[MAX_POINTS].x, gpRegistered[MAX_POINTS].y >>

\* C18: a point on a non-empty path of n waypoints always heads for the
\* waypoint its index names, starting with waypoint 0; on a tick where its
\* progress reaches 1 or more, whatever the dt, it lands exactly on that
\* waypoint and its index goes up by exactly one modulo n; on any other tick
\* the index and the target stay.
C18_PathVisitsInOrder ==
  /\ [](\A i \in PathIdx :
          /\ gpMotionStates[i].pathIndex \in 0..(Len(MotionOf(i).path) - 1)
          /\ << gpMotionStates[i].targetX, gpMotionStates[i].targetY >>
               = Waypoint(i, gpMotionStates[i].pathIndex)
          /\ gpLastOp = "construct" => gpMotionStates[i].pathIndex = 0)
  /\ [][GpReturned("onRender") =>
          \A i \in PathIdx :
            LET s == gpMotionStates[i]
                s2 == gpMotionStates'[i]
                n == Len(MotionOf(i).path)
                t1 == RAdd(s.t, RDiv(Num(gpLastDt'), RMul(MotionOf(i).duration, Num(1000))))
            IN  IF RLe(Num(1), t1)
                THEN /\ << s2.x, s2.y >> = << s.targetX, s.targetY >>
                     /\ gpUniforms'.uPoints[i] = Waypoint(i, s.pathIndex)
                     /\ s2.pathIndex = (s.pathIndex + 1) % n
                     /\ s2.t = Num(0)
                ELSE /\ s2.pathIndex = s.pathIndex
                     /\ << s2.targetX, s2.targetY >> = << s.targetX, s.targetY >>
                     /\ s2.t = t1]_vars

\* C18 witness: the point on the three-waypoint path is exactly on its third
\* waypoint after a tick of 2.5 segment durations, and heads for waypoint 0.
C18_Witness ==
  /\ gpRegistered = PathPoints
  /\ gpLastOp = "onRender"
  /\ gpLastDt = 2500
  /\ gpMotionStates[1].pathIndex = 0
  /\ gpUniforms.uPoints[1] = Waypoint(1, 2)
  /\ << gpMotionStates[1].targetX, gpMotionStates[1].targetY >> = Waypoint(1, 0)

\* the colour between the a-th and b-th colour (from 0) of point p at progress t
Blend(p, a, b, t) ==
  LET c1 == ParseColor(p.colors[a + 1])
      c2 == ParseColor(p.colors[b + 1])
  IN  [k \in 1..3 |-> RAdd(c1[k], RMul(RSub(c2[k], c1[k]), t))]

\* C19: for a point with two or more colours (as registered) the colour progress stays in
\* [0, 1) and the next index is the current one plus one modulo the length;
\* on a tick where the progress reaches 1 or more the emitted colour is
\* exactly the next colour, the progress is 0 and the indices move on by one
\* (wrapping); on any other tick the emitted colour is the blend of the
\* current and the next colour at the new progress.
C19_ColourCycle ==
  /\ [](\A i \in 1..Len(gpPointsConfig) :
          Len(gpPointsConfig[i].colors) >= 2 /\ ~Edited(i, "colors") =>
            LET s == gpColorStates[i]
            IN  /\ RLe(Num(0), s.t) /\ RLt(s.t, Num(1))
                /\ s.nextIdx = (s.currentIdx + 1) % Len(gpPointsConfig[i].colors))
  /\ [][GpReturned("onRender") =>
          \A i \in 1..Len(gpPointsConfig) :
            LET p == gpPointsConfig[i]
                s == gpColorStates[i]
                s2 == gpColorStates'[i]
                t1 == RAdd(s.t, RMul(R(gpLastDt', 1000), SpeedOf(p)))
            IN  Len(p.colors) >= 2 /\ ~Edited(i, "colors") =>
                  IF RLe(Num(1), t1)
                  THEN /\ gpUniforms'.uColors[i] = ParseColor(p.colors[s.nextIdx + 1])
                       /\ s2.t = Num(0)
                       /\ s2.currentIdx = s.nextIdx
                       /\ s2.nextIdx = (s.nextIdx + 1) % Len(p.colors)
                  ELSE /\ gpUniforms'.uColors[i] = Blend(p, s.currentIdx, s.nextIdx, t1)
                       /\ s2 = [s EXCEPT !.t = t1]]_vars

\* C19 witness: the point with two colours and the default speed shows
\* exactly its second colour after a 500 ms tick took its progress from 1/2
\* to 1, and blends back toward the first.
C19_Witness ==
  /\ gpRegistered = ColourPoints
  /\ gpLastOp = "onRender"
  /\ gpLastDt = 500
  /\ gpColorStates[1] = [currentIdx |-> 1, nextIdx |-> 0, t |-> Num(0)]
  /\ gpUniforms.uColors[1] = ParseColor(Blue)
  /\ gpColorStates[3].t = Num(0)

\* C20: a point with exactly one colour (as registered) always shows that colour: every
\* onRender call, whatever its dt, leaves its uColors entry and its colour
\* state as they were.
C20_SingleColourConstant ==
  /\ [](\A i \in 1..Len(gpPointsConfig) :
          Len(gpPointsConfig[i].colors) = 1 /\ ~Edited(i, "colors") =>
            gpUniforms.uColors[i] = ParseColor(gpPointsConfig[i].colors[1]))
  /\ [][GpCalled("onRender") =>
          \A i \in 1..Len(gpPointsConfig) :
            Len(gpPointsConfig[i].colors) = 1 /\ ~Edited(i, "colors") =>
              /\ gpUniforms'.uColors[i] = gpUniforms.uColors[i]
              /\ gpColorStates'[i] = gpColorStates[i]]_vars

\* C20 witness: the one-colour point (with speed 2) still shows its colour
\* after a 2.5 s tick, while its neighbour's colour has moved on.
C20_Witness ==
  /\ gpRegistered = ColourPoints
  /\ gpLastOp = "onRender"
  /\ gpLastDt = 2500
  /\ gpUniforms.uColors[2] = ParseColor(Green)
  /\ gpColorStates[1].currentIdx = 1

\* the place (x, y) lies in the rectangle b
Inside(x, y, b) ==
  /\ RLe(b.minX, x) /\ RLe(x, b.maxX)
  /\ RLe(b.minY, y) /\ RLe(y, b.maxY)

\* C21: the target of every point in random mode lies in the bounds the
\* target was chosen for, whatever the random numbers drawn, both when the
\* radius is 0 or unset (anywhere in the bounds) and when it is positive (in
\* the disk around the base, then clamped).
C21_RandomTargetInBounds ==
  \A i \in 1..Len(gpMotionStates) :
    gpMotionStates[i].mode = "random" =>
      /\ RLe(gpMotionStates[i].bounds.minX, gpMotionStates[i].bounds.maxX)
      /\ RLe(gpMotionStates[i].bounds.minY, gpMotionStates[i].bounds.maxY)
      /\ Inside(gpMotionStates[i].targetX, gpMotionStates[i].targetY,
                gpMotionStates[i].bounds)

\* C21 witness: a point that wandered anywhere in the default bounds was
\* given a disk of radius 3 in bounds of half width 1/2; after the next tick
\* its target is clamped onto the right edge of the new bounds.
C21_Witness ==
  /\ gpLastOp = "onRender"
  /\ gpDefaultMotion = RandomDefault
  /\ Len(gpMotionStates) = 1
  /\ gpPointsConfig[1].motion = Some(WideDisk)
  /\ gpMotionStates[1].mode = "random"
  /\ gpMotionStates[1].randomRadius = Num(3)
  /\ gpMotionStates[1].bounds.maxX = R(1, 2)
  /\ gpMotionStates[1].targetX = R(1, 2)

\* C22: each of the four easing curves gives 0 at progress 0 and below, 1 at
\* progress 1 and above (the progress is clamped into [0, 1] first), a value
\* in [0, 1] in between, and never a smaller value for a larger progress.
C22_EasingMonotone ==
  /\ [](/\ RLe(easeT, Num(0)) => easeY = Num(0)
        /\ RLe(Num(1), easeT) => easeY = Num(1)
        /\ RLe(Num(0), easeY) /\ RLe(easeY, Num(1))
        /\ easeY = ease(clamp(easeT, Num(0), Num(1)), easeKind))
  /\ [][RLt(easeT, easeT') => RLe(easeY, easeY')]_vars

\* C22 witness: the cubic curve in its second half, strictly between 1/2
\* and 1.
C22_Witness ==
  /\ easeKind = "easeInOutCubic"
  /\ RLt(R(1, 2), easeT) /\ RLt(easeT, Num(1))
  /\ RLt(R(1, 2), easeY) /\ RLt(easeY, Num(1))

\* C23: a tick that follows a caller's assignment to a point's base, colour
\* list or motion returns normally, whatever was assigned.
C23_TickAfterEditReturns ==
  gpLastOp = "onRender" /\ gpEdits # <<>> => ~gpThrew

\* the colour black
Black == << Num(0), Num(0), Num(0) >>

\* the indices of the points in path mode whose path has no waypoint, once
\* their motion state was made for that motion
EmptyPathIdx ==
  {i \in 1..Len(gpPointsConfig) :
     /\ MotionOf(i).mode = "path"
     /\ Len(MotionOf(i).path) = 0
     /\ ~Stale(gpMotionStates[i], MotionOf(i))}

\* C24: a point registered with an empty colour list shows black after
\* construction and after every tick; a point in path mode with an empty
\* path keeps the position it has on every tick; and neither construction
\* nor any tick throws as long as no colour list was assigned afterwards.
C24_MalformedPointsHold ==
  /\ [](\A i \in 1..Len(gpPointsConfig) :
          Len(gpPointsConfig[i].colors) = 0 /\ ~Edited(i, "colors") =>
            gpUniforms.uColors[i] = Black)
  /\ []((\A i \in 1..Len(gpPointsConfig) : ~Edited(i, "colors")) => ~gpThrew)
  /\ [][GpCalled("onRender") =>
          \A i \in EmptyPathIdx :
            /\ gpUniforms'.uPoints[i] = gpUniforms.uPoints[i]
            /\ gpMotionStates'[i].x = gpMotionStates[i].x
            /\ gpMotionStates'[i].y = gpMotionStates[i].y]_vars

\* C24 witness: the point registered without colours and with an empty path
\* is black and at its registered place after a 2.5 s tick.
C24_Witness ==
  /\ gpLastOp = "onRender"
  /\ gpLastDt = 2500
  /\ ~gpThrew
  /\ gpEdits = <<>>
  /\ gpPointsConfig = MalformedPoints
  /\ 1 \in EmptyPathIdx
  /\ gpUniforms.uColors[1] = Black
  /\ gpUniforms.uPoints[1] = << MalformedPoints[1].x, MalformedPoints[1].y >>

\* the base of point i clamped into the bounds of its motion: what a point
\* in static mode emits
ClampedBase(i) ==
  << clamp(gpPointsConfig[i].x, MotionOf(i).bounds.minX, MotionOf(i).bounds.maxX),
     clamp(gpPointsConfig[i].y, MotionOf(i).bounds.minY, MotionOf(i).bounds.maxY) >>

\* C25: after every tick a point in path mode with an empty path is where a
\* static point with the same base and bounds is: at its current base
\* (the registered one, or the one the caller assigned since) clamped into
\* the bounds.
C25_EmptyPathIsStatic ==
  gpLastOp = "onRender" =>
    \A i \in EmptyPathIdx : gpUniforms.uPoints[i] = ClampedBase(i)

\* the indices of the points whose motion resolves to static mode
StaticIdx == {i \in 1..Len(gpPointsConfig) : MotionOf(i).mode = "none"}

\* C26: after every tick that returned, whatever its dt, a point in static
\* mode is at its current base clamped into its bounds (so a base assigned
\* between ticks shows on the next tick), with start and target at the same
\* place and progress 1.
C26_StaticTracksBase ==
  gpLastOp = "onRender" /\ ~gpThrew =>
    \A i \in StaticIdx :
      /\ gpUniforms.uPoints[i] = ClampedBase(i)
      /\ << gpMotionStates[i].x, gpMotionStates[i].y >> = ClampedBase(i)
      /\ << gpMotionStates[i].startX, gpMotionStates[i].startY >> = ClampedBase(i)
      /\ << gpMotionStates[i].targetX, gpMotionStates[i].targetY >> = ClampedBase(i)
      /\ gpMotionStates[i].t = Num(1)

\* C26 witness: a static point whose base the caller moved to (2, 0),
\* outside the default bounds, is at (1, 0) after a 2.5 s tick.
C26_Witness ==
  /\ gpLastOp = "onRender"
  /\ gpLastDt = 2500
  /\ ~gpThrew
  /\ gpEdits = << << 1, "base" >> >>
  /\ 1 \in StaticIdx
  /\ gpPointsConfig[1].x = Num(2)
  /\ gpUniforms.uPoints[1] = << Num(1), Num(0) >>

\* the values a motion state was made for differ from the resolved motion r
Differs(s, r) ==
  << s.mode, s.easing, s.duration, s.bounds, s.randomRadius >>
    # << r.mode, r.easing, r.duration, r.bounds, r.randomRadius >>

\* the state s2 continues the segment of s by the progress step: no re-seed
Continues(s, s2, step) ==
  RLt(RAdd(s.t, step), Num(1)) =>
    /\ s2.t = RAdd(s.t, step)
    /\ << s2.startX, s2.startY >> = << s.startX, s.startY >>
    /\ << s2.targetX, s2.targetY >> = << s.targetX, s.targetY >>
    /\ s2.pathIndex = s.pathIndex

\* the state s2 is s re-seeded for the moving motion r of point i, then
\* advanced by the progress step
Reseeds(i, s, s2, r, step) ==
  IF r.mode = "path" /\ Len(r.path) = 0
  THEN /\ << s2.x, s2.y >> = << gpPointsConfig[i].x, gpPointsConfig[i].y >>
       /\ s2.t = Num(1)
       /\ s2.pathIndex = 0
  ELSE IF RLt(step, Num(1))
  THEN /\ << s2.startX, s2.startY >> = << s.x, s.y >>
       /\ s2.t = step
       /\ s2.pathIndex = 0
       /\ r.mode = "path" => << s2.targetX, s2.targetY >> = Waypoint(i, 0)
       /\ r.mode = "random" => Inside(s2.targetX, s2.targetY, r.bounds)
  ELSE /\ s2.t = Num(0)
       /\ r.mode = "path" =>
            /\ << s2.x, s2.y >> = Waypoint(i, 0)
            /\ s2.pathIndex = 1 % Len(r.path)
       /\ r.mode = "random" => Inside(s2.x, s2.y, r.bounds)

\* C27: on a tick that returns, the motion state of a point is re-seeded
\* exactly when the mode, easing, duration, bounds or radius it was made for
\* differ from the resolved motion.  Re-seeded: it takes the new values, and
\* for a static motion it is parked at the clamped base with progress 1,
\* otherwise its segment starts at the position of the previous tick with
\* progress 0 and waypoint index 0 toward the first target of the new mode,
\* and the tick's dt then advances it.  Not re-seeded (also when the motion
\* object was replaced by one with equal resolved values): the progress goes
\* on from where it was and start, target and index stay.
C27_ReseedOnChange ==
  [][GpReturned("onRender") =>
       \A i \in 1..Len(gpPointsConfig) :
         LET r == MotionOf(i)
             s == gpMotionStates[i]
             s2 == gpMotionStates'[i]
             step == RDiv(Num(gpLastDt'), RMul(r.duration, Num(1000)))
         IN  /\ ~Differs(s2, r)
             /\ r.mode = "none" =>
                  /\ << s2.x, s2.y >> = ClampedBase(i)
                  /\ s2.t = Num(1)
             /\ r.mode # "none" =>
                  IF Differs(s, r) THEN Reseeds(i, s, s2, r, step)
                  ELSE Continues(s, s2, step)]_vars

\* C27 witness: a point half way along the first segment of its path, at
\* (1/4, 0), was given a random motion; the next tick (dt 0) re-seeded it:
\* random mode, the segment starts at (1/4, 0) with progress 0.
C27_Witness ==
  /\ gpLastOp = "onRender"
  /\ gpLastDt = 0
  /\ gpEdits = << << 1, "motion" >> >>
  /\ gpPointsConfig[1].motion = Some(WideDisk)
  /\ gpMotionStates[1].mode = "random"
  /\ gpMotionStates[1].startX = R(1, 4)
  /\ gpMotionStates[1].startY = Num(0)
  /\ gpMotionStates[1].t = Num(0)
  /\ gpMotionStates[1].pathIndex = 0

\* C28: at construction and after every tick, whatever its dt, the motion
\* progress of every point is in [0, 1] and its colour progress is in [0, 1).
C28_ProgressBounded ==
  /\ \A i \in 1..Len(gpMotionStates) :
       RLe(Num(0), gpMotionStates[i].t) /\ RLe(gpMotionStates[i].t, Num(1))
  /\ \A i \in 1..Len(gpColorStates) :
       RLe(Num(0), gpColorStates[i].t) /\ RLt(gpColorStates[i].t, Num(1))

\* C28 witness: after a 2.5 s tick the point on a path with 2 s segments
\* and two colours has landed and moved to its second colour: both
\* progresses are back at 0.
C28_Witness ==
  /\ gpLastOp = "onRender"
  /\ gpLastDt = 2500
  /\ gpPointsConfig = PathPoints
  /\ gpMotionStates[2].t = Num(0)
  /\ gpMotionStates[2].pathIndex = 1
  /\ gpColorStates[2].t = Num(0)
  /\ gpColorStates[2].currentIdx = 1

\* the duration configured for point i: the point's own, else the default
\* motion's, else none
ConfiguredDuration(i) == MergeMotion(gpDefaultMotion, gpPointsConfig[i].motion).duration

\* C29: the segment duration used for a point is at least 0.001 s, whatever
\* is configured: 3 s when no duration is configured, 0.001 s for 0 and for
\* negative durations, and the configured one otherwise; so is the duration
\* every motion state holds, and the progress step dt / (duration * 1000)
\* never divides by 0.
C29_DurationPositive ==
  /\ \A i \in 1..Len(gpPointsConfig) :
       /\ RLe(R(1, 1000), MotionOf(i).duration)
       /\ ConfiguredDuration(i) = None => MotionOf(i).duration = Num(3)
       /\ ConfiguredDuration(i) # None =>
            MotionOf(i).duration =
              IF RLt(ConfiguredDuration(i)[1], R(1, 1000)) THEN R(1, 1000)
              ELSE ConfiguredDuration(i)[1]
  /\ \A i \in 1..Len(gpMotionStates) :
       /\ RLe(R(1, 1000), gpMotionStates[i].duration)
       /\ RMul(gpMotionStates[i].duration, Num(1000)) # Num(0)

\* C29 witness: a point was given a random motion with duration 0; the next
\* tick (500 ms) ran it with a duration of 0.001 s and landed it on its
\* target.
C29_Witness ==
  /\ gpLastOp = "onRender"
  /\ gpLastDt = 500
  /\ ~gpThrew
  /\ gpEdits = << << 1, "motion" >> >>
  /\ gpPointsConfig[1].motion = Some(WideDisk)
  /\ ConfiguredDuration(1) = Some(Num(0))
  /\ gpMotionStates[1].duration = R(1, 1000)
  /\ gpMotionStates[1].t = Num(0)
  /\ gpUniforms.uPoints[1] = << gpMotionStates[1].startX, gpMotionStates[1].startY >>

\* C30: the uPoints and uColors arrays are the two arrays the constructor
\* allocated, with exactly 16 slots each, in every state; every slot from the
\* tracked point count on holds its initial value ((0, 0) and black) in
\* every state, and a tick leaves every such slot as it was.
C30_ArraysInPlace ==
  /\ [](/\ gpUniforms.arrays = << "pointArray", "colorArray" >>
        /\ DOMAIN gpUniforms.uPoints = 1..16
        /\ DOMAIN gpUniforms.uColors = 1..16
        /\ gpUniforms.uPointCount = Len(gpPointsConfig)
        /\ \A i \in (gpUniforms.uPointCount + 1)..16 :
             /\ gpUniforms.uPoints[i] = << Num(0), Num(0) >>
             /\ gpUniforms.uColors[i] = Black)
  /\ [][GpCalled("onRender") =>
          \A i \in (gpUniforms.uPointCount + 1)..16 :
            /\ gpUniforms'.uPoints[i] = gpUniforms.uPoints[i]
            /\ gpUniforms'.uColors[i] = gpUniforms.uColors[i]]_vars

\* C30 witness: 15 points are tracked; the caller moved the first one and a
\* tick wrote its new place into slot 1, while slot 16 still holds (0, 0)
\* and black.
C30_Witness ==
  /\ gpLastOp = "onRender"
  /\ gpUniforms.uPointCount = MAX_POINTS - 1
  /\ gpEdits = << << 1, "base" >> >>
  /\ gpUniforms.uPoints[1] = ClampedBase(1)
  /\ gpUniforms.uPoints[MAX_POINTS] = << Num(0), Num(0) >>
  /\ gpUniforms.uColors[MAX_POINTS] = Black

\* the display size a resize(a[1], a[2]) call works with: its arguments, or
\* the element's box (at least 1) when one is missing
ResizeTo(a) ==
  IF a[1] = None \/ a[2] = None
    THEN << Max(1, rect.width), Max(1, rect.height) >>
    ELSE << a[1][1], a[2][1] >>

\* C32: every resize call, in either mode, stores the size it was given as
\* the display size, writes it to uResolution, and calls the kernel's
\* onResize hook (if it has one) exactly once, with the display size.
C32_ResizeNotifies ==
  [][Called("resize") =>
       \E a \in ResizeArgs :
         /\ << displayWidth', displayHeight' >> = ResizeTo(a)
         /\ uniforms'.uResolution = ResizeTo(a)
         /\ EventsOf(log', "onResize") =
              IF plugin.onResize THEN << Event("onResize", ResizeTo(a)) >> ELSE <<>>]_vars

\* C32 witness: a resize in single-render mode whose buffer change is
\* deferred; the kernel was told the display size, which is not the size
\* the buffer will get.
C32_Witness ==
  /\ lastOp = "resize"
  /\ singleRender
  /\ pendingResize # None
  /\ pendingResize[1] # << displayWidth, displayHeight >>
  /\ pendingResize[1] # Buffer
  /\ EventsOf(log, "onResize") = << Event("onResize", << displayWidth, displayHeight >>) >>
  /\ uniforms.uResolution = << displayWidth, displayHeight >>

\* the buffer size that belongs to the display size
ScaledDisplay ==
  << BufferDim(displayWidth, renderScale), BufferDim(displayHeight, renderScale) >>

\* C33: in every state, if no resize is pending the buffer has the size
\* max(1, floor(display size * scale)); if one is pending, the pending size
\* is that size; and in continuous mode none is ever pending.
C33_SizingInvariant ==
  /\ pendingResize = None => (Buffer = ScaledDisplay /\ rendererSize = ScaledDisplay)
  /\ pendingResize # None => pendingResize[1] = ScaledDisplay
  /\ ~singleRender => pendingResize = None

\* C33 witness: a continuous engine with a scale other than 1 that was
\* resized and has drawn a frame since.
C33_Witness ==
  /\ ~singleRender
  /\ isPlaying
  /\ lastOp = "frame"
  /\ << displayWidth, displayHeight >> = << 5, 2 >>
  /\ Buffer = ScaledDisplay
  /\ Buffer # << displayWidth, displayHeight >>

\* C36: a start() on a stopped engine sets lastTime to the current instant, so
\* the tick it performs has dt 0 and adds nothing to totalTime, however long
\* the engine was stopped; the next frame's dt is measured from lastTime,
\* that is from the start() call.
C36_StoppedTimeNotAnimated ==
  [][/\ (Called("start") /\ ~isPlaying) =>
           /\ lastTime' = now
           /\ totalTime' = totalTime
           /\ EventsOf(log', "clock") = << Event("clock", << 0, totalTime >>) >>
     /\ (Called("frame") /\ isPlaying /\ lastOp = "clock") =>
           /\ totalTime' = totalTime + (now - lastTime)
           /\ lastTime' = now]_vars

\* C36 witness: the engine ticked for one unit, was stopped while the clock
\* moved on, and has just been started again in continuous mode: the stopped
\* unit is not in totalTime.
C36_Witness ==
  /\ lastOp = "start"
  /\ ~singleRender
  /\ isPlaying
  /\ now = 2
  /\ lastTime = 2
  /\ totalTime = 1
  /\ rafQueue # {}

\* the step just taken was left by an exception of the per-frame hook
Faulted == CountOf(log, "throw") > 0

\* C34: at most one animation-frame callback is scheduled for the engine at
\* any moment, whatever start()/stop() calls were made, also from inside
\* the per-frame hook.
C34_OneFrameScheduled == Cardinality(rafQueue) <= 1

\* C35: after a step in which onRender raised a fault the engine is not left
\* marked running with no frame scheduled.
C35_FaultDoesNotWedge == Faulted => ~(isPlaying /\ rafQueue = {})

\* C37: disconnectedCallback leaves the element with no engine and no frame
\* scheduled, and a step taken on the disconnected element other than
\* connecting it again (a plugin, renderScale or singleRender change, by
\* property or attribute) leaves it that way.
C37_DisconnectedStaysIdle ==
  [][/\ ElCalled("disconnect") =>
           /\ elEngine' = None
           /\ \A r \in elRetired' : ~r.scheduled
     /\ (elLastOp = "disconnect" /\ ~ElCalled("connect")) =>
           /\ elEngine' = None
           /\ \A r \in elRetired' : ~r.scheduled]_vars

\* the indices of the moving points (random mode, or a path with waypoints)
\* whose motion the caller has left as registered
MovingIdx ==
  {i \in 1..Len(gpMotionStates) :
     /\ ~Edited(i, "motion")
     /\ (MotionOf(i).mode = "random" \/ i \in PathIdx)}

\* the tick just taken moves s to s2, for a point with bounds b whose
\* progress advances by step: if the segment under way started inside b, or
\* ends in this tick, the new start and the new position are inside b
StaysInside(s, s2, b, step) ==
  (Inside(s.startX, s.startY, b) \/ RLe(Num(1), RAdd(s.t, step))) =>
    /\ Inside(s2.startX, s2.startY, b)
    /\ Inside(s2.x, s2.y, b)

\* C38: the target of every moving point (a path waypoint or a random
\* target) is inside the point's bounds; so from the tick that completes a
\* point's first segment on, while its motion is left unchanged, the start of
\* its segment and the position written to uPoints are inside the bounds.
C38_PositionInBounds ==
  /\ [](\A i \in MovingIdx :
          Inside(gpMotionStates[i].targetX, gpMotionStates[i].targetY,
                 MotionOf(i).bounds))
  /\ [][GpReturned("onRender") =>
          \A i \in MovingIdx :
            /\ StaysInside(gpMotionStates[i], gpMotionStates'[i], MotionOf(i).bounds,
                           RDiv(Num(gpLastDt'), RMul(MotionOf(i).duration, Num(1000))))
            /\ gpUniforms'.uPoints[i] = << gpMotionStates'[i].x, gpMotionStates'[i].y >>]_vars

\* C38 witness: the second path point, whose first waypoint (2, 0) lies
\* outside the default bounds, has completed segments and is under way from
\* the clamped waypoint (1, 0) back to (0, 0), inside the bounds.
C38_Witness ==
  /\ gpLastOp = "onRender"
  /\ ~gpThrew
  /\ gpRegistered = PathPoints
  /\ 2 \in MovingIdx
  /\ gpMotionStates[2].pathIndex = 1
  /\ << gpMotionStates[2].startX, gpMotionStates[2].startY >> = << Num(1), Num(0) >>
  /\ RLt(Num(0), gpMotionStates[2].t)
  /\ RLt(gpUniforms.uPoints[2][1], Num(1))
  /\ Inside(gpUniforms.uPoints[2][1], gpUniforms.uPoints[2][2], MotionOf(2).bounds)

\* C31: after every tick the plugin follows the collection it was given: the
\* tick did not throw, and uPointCount and the numbers of motion and colour
\* states equal the number of points in the collection, at most 16; also
\* when the caller added or removed a point since the last tick.
C31_TrackedSetFollows ==
  gpLastOp = "onRender" =>
    /\ ~gpThrew
    /\ gpUniforms.uPointCount = Min(Len(gpRegistered), MAX_POINTS)
    /\ Len(gpMotionStates) = Min(Len(gpRegistered), MAX_POINTS)
    /\ Len(gpColorStates) = Min(Len(gpRegistered), MAX_POINTS)

\* the first orb is beyond a wall on the x axis, on the y axis
OutsideX == orbs[1].x < WallLo \/ orbs[1].x > WallHi
OutsideY == orbs[1].y < WallLo \/ orbs[1].y > WallHi

\* the velocity v of an orb at pos does not lead further away from [-1, 1]
Inward(pos, v) ==
  /\ pos > WallHi => v < 0
  /\ pos < WallLo => v > 0

\* the first orb's velocities do not lead further away from [-1, 1]
OrbInward == Inward(orbs[1].x, orbs[1].vx) /\ Inward(orbs[1].y, orbs[1].vy)

\* C39: after every tick, an orb (the first one) that is outside [-1, 1] on an axis has a
\* velocity on that axis that points back toward the interior; and under
\* continued ticks an orb that is outside on an axis is inside on that axis
\* again at some later tick.
C39_BounceReturns ==
  /\ [](orbLastOp = "onRender" => OrbInward)
  /\ (OutsideX ~> ~OutsideX)
  /\ (OutsideY ~> ~OutsideY)

====
